---- MODULE Spec2Model ----
(***************************************************************************)
(* A model of chatdelta-js: the retry executor (src/src/retry.ts), the     *)
(* provider clients' request loop and error classifier                     *)
(* (src/src/clients/claude.ts), the fan-out executor (src/src/index.ts)    *)
(* and the chat session (src/src/session.ts, src/src/conversation.ts),     *)
(* the decoder of the provider clients' streaming calls                    *)
(* (src/src/clients/claude.ts, src/unnamed/part_001), the metrics          *)
(* aggregator (src/src/metrics.ts) and the client factory createClient     *)
(* (src/src/index.ts).                                                     *)
(*                                                                         *)
(* Strings are TLA+ strings; a thrown value is a record whose field class  *)
(* is the JavaScript class of the value.                                   *)
(***************************************************************************)
EXTENDS Integers, Sequences, FiniteSets, TLC

VARIABLES
    \* executeWithRetry (src/src/retry.ts)
    rConfig,      \* the Partial<RetryConfig> passed by the caller
    rPc,          \* "start" | "awaitFn" | "sleeping" | "resolved" | "rejected"
    rAttempt,     \* the loop variable attempt
    rLastError,   \* the variable lastError (Null before the first failure)
    rResult,      \* the value the returned promise settled with
    rCalls,       \* how many times fn() has been invoked
    rRaised,      \* the values fn() rejected with, one per failed attempt
    rSleeps,      \* the delays handed to setTimeout, in order
    \* ChatSession (src/src/session.ts)
    messages,     \* conversation.messages, the history of the session
    sCalls,       \* the calls of send, sendWithMetadata and stream, by call id
    \* Conversation (src/src/conversation.ts)
    held,         \* the array a caller got from getMessages, and the change the
                  \* caller made to it
    \* executeParallel and executeParallelConversation (src/src/index.ts)
    fFunction,    \* which of the two functions is called
    fClients,     \* the clients array: a description of each client
    fPc,          \* "start" | "joining" | "resolved" | "rejected"
    fTasks,       \* the mapped async function of each client, and the client's call
    fStarted,     \* the clients whose call has been made, in the order of the calls
    fSettled,     \* the clients whose call has settled, in the order of settling
    fResult,      \* the value the promise of executeParallel settled with
    \* sendPromptStream and sendConversationStream (src/src/clients/claude.ts)
    dClient,      \* "Claude" | "ChatGPT": the client whose streaming call it is
    dFeed,        \* the bytes the transport is to deliver, as a string
    dRest,        \* the bytes not delivered yet
    dPc,          \* "idle" | "opening" | "reading" | "returned" | "ended" | "threw"
    buffer,       \* the variable buffer
    dLines,       \* the lines the for loop has taken up, in order
    dOut,         \* the chunks yielded, in order
    dError,       \* the value the call threw (Null while it has not)
    \* ClientMetrics (src/src/metrics.ts)
    requestsTotal,
    requestsSucceeded,
    requestsFailed,
    totalLatencyMs,
    latencies,
    promptTokensTotal,
    completionTokensTotal,
    cacheHits,
    cacheMisses,
    startTime,
    now,          \* what Date.now() returns
    snapshot,     \* what getSnapshot returned, if it was the last operation
    returned,     \* what the latest getSnapshot returned, while no operation other
                  \* than getSnapshot has been called since
    called,       \* the calls of recordSuccess and recordFailure made on the object
                  \* since it was constructed or reset: how many of each, and the
                  \* latencies passed
    \* handleError (src/src/clients/claude.ts) and isRetryableError (src/src/retry.ts)
    hError,       \* the value caught, the argument of handleError
    hPc,          \* "idle" | "caught" | "classified" | "decided"
    hResult,      \* the ClientError handleError returned (Null before)
    hRetryable,   \* what isRetryableError returned for it: <<>> before, then <<b>>
    \* createClient (src/src/index.ts)
    cProvider,    \* the argument provider
    cApiKey,      \* the argument apiKey
    cModel,       \* the argument model
    cPc,          \* "idle" | "called" | "done"
    cOutcome      \* how the call ended: the client returned or the error thrown

retryVars == <<rConfig, rPc, rAttempt, rLastError, rResult, rCalls, rRaised, rSleeps>>

sessionVars == <<messages, sCalls>>

conversationVars == <<held>>

fanoutVars == <<fFunction, fClients, fPc, fTasks, fStarted, fSettled, fResult>>

streamVars == <<dClient, dFeed, dRest, dPc, buffer, dLines, dOut, dError>>

\* the fields of a ClientMetrics object
metricsFields ==
    <<requestsTotal, requestsSucceeded, requestsFailed, totalLatencyMs, latencies,
      promptTokensTotal, completionTokensTotal, cacheHits, cacheMisses, startTime>>

metricsVars == <<metricsFields, now, snapshot, returned, called>>

classifyVars == <<hError, hPc, hResult, hRetryable>>

factoryVars == <<cProvider, cApiKey, cModel, cPc, cOutcome>>

vars == <<rConfig, rPc, rAttempt, rLastError, rResult, rCalls, rRaised, rSleeps,
          messages, sCalls, held,
          fFunction, fClients, fPc, fTasks, fStarted, fSettled, fResult,
          streamVars, metricsVars, classifyVars, factoryVars>>

\* a step of one component leaves the others alone
OnlyRetry ==
    UNCHANGED <<sessionVars, fanoutVars, streamVars, metricsVars, classifyVars, factoryVars,
               conversationVars>>
OnlySession ==
    UNCHANGED <<retryVars, fanoutVars, streamVars, metricsVars, classifyVars, factoryVars,
               conversationVars>>
OnlyFanout ==
    UNCHANGED <<retryVars, sessionVars, streamVars, metricsVars, classifyVars, factoryVars,
               conversationVars>>
OnlyStream ==
    UNCHANGED <<retryVars, sessionVars, fanoutVars, metricsVars, classifyVars, factoryVars,
               conversationVars>>
OnlyMetrics ==
    UNCHANGED <<retryVars, sessionVars, fanoutVars, streamVars, classifyVars, factoryVars,
               conversationVars>>
OnlyFactory ==
    UNCHANGED <<retryVars, sessionVars, fanoutVars, streamVars, metricsVars, classifyVars,
               conversationVars>>
OnlyConversation ==
    UNCHANGED <<retryVars, sCalls, fanoutVars, streamVars, metricsVars, classifyVars,
               factoryVars>>
OnlyClassify ==
    UNCHANGED <<retryVars, sessionVars, fanoutVars, streamVars, metricsVars, factoryVars,
               conversationVars>>

(***************************************************************************)
(* Bounds of the model.                                                    *)
(***************************************************************************)
MaxAttemptsBound == 2
RandomSteps == 2
MaxCalls == 2
MaxChunks == 2
NumClients == 2
MaxRetries == 1
MaxClientRetries == 2
MaxFeedLines == 3
MaxLineBytes == 64
MaxFeedBytes == MaxFeedLines * MaxLineBytes
MaxRequests == 5
MaxCacheEvents == 1
MaxClock == 1
MaxMessages == 2

(***************************************************************************)
(* Strings.                                                                *)
(***************************************************************************)
LowerChar(c) ==
    CASE c = "A" -> "a" [] c = "B" -> "b" [] c = "C" -> "c" [] c = "D" -> "d"
      [] c = "E" -> "e" [] c = "F" -> "f" [] c = "G" -> "g" [] c = "H" -> "h"
      [] c = "I" -> "i" [] c = "J" -> "j" [] c = "K" -> "k" [] c = "L" -> "l"
      [] c = "M" -> "m" [] c = "N" -> "n" [] c = "O" -> "o" [] c = "P" -> "p"
      [] c = "Q" -> "q" [] c = "R" -> "r" [] c = "S" -> "s" [] c = "T" -> "t"
      [] c = "U" -> "u" [] c = "V" -> "v" [] c = "W" -> "w" [] c = "X" -> "x"
      [] c = "Y" -> "y" [] c = "Z" -> "z" [] OTHER -> c

RECURSIVE toLowerCase(_)
toLowerCase(s) ==
    IF Len(s) = 0 THEN ""
    ELSE LowerChar(SubSeq(s, 1, 1)) \o toLowerCase(SubSeq(s, 2, Len(s)))

\* String.prototype.includes
includes(s, t) ==
    \E i \in 1..(Len(s) - Len(t) + 1) : SubSeq(s, i, i + Len(t) - 1) = t

IsDigit(c) == c \in {"0", "1", "2", "3", "4", "5", "6", "7", "8", "9"}

\* error.message.match(/HTTP 5\d\d/)
MatchesHttp5xx(s) ==
    \E i \in 1..(Len(s) - 7) :
        /\ SubSeq(s, i, i + 5) = "HTTP 5"
        /\ IsDigit(SubSeq(s, i + 6, i + 6))
        /\ IsDigit(SubSeq(s, i + 7, i + 7))

(***************************************************************************)
(* Values that can be thrown.  class is the constructor of the value:      *)
(* "ClientError", "AxiosError" and "Error" are Error objects, "NonError"   *)
(* is any other thrown value (a number, a string, an object literal).      *)
(***************************************************************************)
Null == [class |-> "null"]

ErrorKinds == {"Network", "Api", "Authentication", "Configuration", "Parse", "Stream"}

\* new ClientError(type, message): the message is prefixed with the type
ClientError(type, message) ==
    [class |-> "ClientError", type |-> type, message |-> type \o " error: " \o message]

ClientError_network(message) == ClientError("Network", message)
ClientError_api(message) == ClientError("Api", message)
ClientError_authentication(message) == ClientError("Authentication", message)
ClientError_configuration(message) == ClientError("Configuration", message)
ClientError_parse(message) == ClientError("Parse", message)
ClientError_stream(message) == ClientError("Stream", message)

\* new Error(message)
PlainError(message) == [class |-> "Error", message |-> message]

\* a thrown value that is no Error object
NonError(v) == [class |-> "NonError", value |-> v]

\* an error made by the HTTP transport (axios): code, optional response status
\* (<<>> when the request got no response, <<status>> otherwise) and message
AxiosError(code, response, message) ==
    [class |-> "AxiosError", code |-> code, response |-> response, message |-> message]

instanceofError(e) == e.class \in {"ClientError", "AxiosError", "Error"}
instanceofClientError(e) == e.class = "ClientError"
isAxiosError(e) == e.class = "AxiosError"

(***************************************************************************)
(* handleError: the error classifier of the provider clients.              *)
(***************************************************************************)
\* a classifier that looks at the response before the transport code
handleError_StatusFirst(error) ==
    IF isAxiosError(error) THEN
        IF error.response # <<>> THEN
            LET status == error.response[1] IN
            IF status = 401 THEN ClientError_authentication("Invalid API key")
            ELSE IF status = 429 THEN ClientError_api("Rate limit exceeded")
            ELSE ClientError_api("HTTP " \o ToString(status) \o ": " \o error.message)
        ELSE IF error.code \in {"ECONNABORTED", "ETIMEDOUT"} THEN
            ClientError_network("Request timeout")
        ELSE IF error.code \in {"ECONNREFUSED", "ENOTFOUND"} THEN
            ClientError_network("Connection failed")
        ELSE ClientError_network(error.message)
    ELSE IF instanceofError(error) THEN
        ClientError_parse("JSON parsing failed: " \o error.message)
    ELSE ClientError_network("Unknown error occurred")

handleError(error) ==
    IF isAxiosError(error) THEN
        IF error.code \in {"ECONNABORTED", "ETIMEDOUT"} THEN
            ClientError_network("Request timeout")
        ELSE IF error.code \in {"ECONNREFUSED", "ENOTFOUND"} THEN
            ClientError_network("Connection failed")
        ELSE IF error.response # <<>> THEN
            LET status == error.response[1] IN
            IF status = 401 THEN ClientError_authentication("Invalid API key")
            ELSE IF status = 429 THEN ClientError_api("Rate limit exceeded")
            ELSE ClientError_api("HTTP " \o ToString(status) \o ": " \o error.message)
        ELSE ClientError_network(error.message)
    ELSE IF instanceofError(error) THEN
        ClientError_parse("JSON parsing failed: " \o error.message)
    ELSE ClientError_network("Unknown error occurred")

(***************************************************************************)
(* The retry executor.                                                     *)
(***************************************************************************)
Strategies == {"fixed", "linear", "exponential", "exponential_with_jitter"}

DefaultMaxAttempts == 3
DefaultBaseDelayMs == 1000
DefaultMaxDelayMs == 30000

\* an optional number is <<>> (undefined) or <<n>>
defaultRetryConfig ==
    [strategy |-> "exponential", maxAttempts |-> DefaultMaxAttempts,
     baseDelayMs |-> DefaultBaseDelayMs, maxDelayMs |-> <<DefaultMaxDelayMs>>]

\* { ...defaultRetryConfig, ...config }: a field of the Partial<RetryConfig> is
\* <<>> when the caller left it out and <<v>> when the caller gave v
fullConfig(config) ==
    [f \in DOMAIN defaultRetryConfig |->
        IF config[f] # <<>> THEN config[f][1] ELSE defaultRetryConfig[f]]

Min(a, b) == IF a <= b THEN a ELSE b

RECURSIVE Pow2(_)
Pow2(n) == IF n = 0 THEN 1 ELSE 2 * Pow2(n - 1)

\* Math.floor(baseExponential + Math.random() * baseExponential * 0.1) for an
\* integer baseExponential b.  Math.random() lies in [0, 1); the model draws it
\* from the grid k / RandomSteps, k < RandomSteps, for which the floored sum is
\* b + floor(k * b / (10 * RandomSteps)).
JitterDelays(b) == { b + ((k * b) \div (10 * RandomSteps)) : k \in 0..(RandomSteps - 1) }

\* the delays calculateDelay can return (one value, but for the jitter)
calculateDelay(strategy, attempt, baseDelayMs, maxDelayMs) ==
    LET delays ==
            CASE strategy = "fixed" -> {baseDelayMs}
              [] strategy = "linear" -> {baseDelayMs * (attempt + 1)}
              [] strategy = "exponential" -> {baseDelayMs * Pow2(attempt)}
              [] strategy = "exponential_with_jitter" ->
                    JitterDelays(baseDelayMs * Pow2(attempt))
              [] OTHER -> {baseDelayMs}
        \* if (maxDelayMs): undefined and 0 are falsy
        capped == IF maxDelayMs # <<>> /\ maxDelayMs[1] # 0
                  THEN {Min(d, maxDelayMs[1]) : d \in delays}
                  ELSE delays
    IN  capped

isRetryableError(error) ==
    IF ~instanceofClientError(error) THEN FALSE
    ELSE IF error.type = "Network" THEN TRUE
    ELSE IF error.type = "Api" /\ includes(toLowerCase(error.message), "rate limit") THEN TRUE
    ELSE IF includes(toLowerCase(error.message), "timeout") THEN TRUE
    ELSE IF error.type = "Api" /\ MatchesHttp5xx(error.message) THEN TRUE
    ELSE IF error.type \in {"Authentication", "Configuration"} THEN FALSE
    ELSE FALSE

\* a catch block that keeps the first error it saw
CaughtError_KeepsFirst(lastError, error) ==
    IF lastError.class # "null" THEN lastError
    ELSE IF instanceofError(error) THEN error ELSE PlainError("Unknown error")

\* lastError = error instanceof Error ? error : new Error('Unknown error')
CaughtError(lastError, error) ==
    IF instanceofError(error) THEN error ELSE PlainError("Unknown error")

\* a loop that counts maxAttempts as the total number of attempts
IsLastAttempt_OffByOne(attempt, maxAttempts) == attempt + 1 >= maxAttempts

\* a loop without the test for the last attempt
IsLastAttempt_Never(attempt, maxAttempts) == FALSE

\* if (attempt >= fullConfig.maxAttempts) break
IsLastAttempt(attempt, maxAttempts) == attempt >= maxAttempts

\* if (!isRetryableError(error)) break
GivesUpOn(error) == ~isRetryableError(error)

\* a loop that stops one iteration early
LoopContinues_Exclusive(attempt, maxAttempts) == attempt < maxAttempts

\* for (...; attempt <= fullConfig.maxAttempts; ...)
LoopContinues(attempt, maxAttempts) == attempt <= maxAttempts

(***************************************************************************)
(* What the operation fn can do.  The failures of a transport, which a     *)
(* client operation classifies with handleError before it rejects:         *)
(***************************************************************************)
Failure_401 == AxiosError("ERR_BAD_REQUEST", <<401>>, "Request failed with status code 401")
Failure_429 == AxiosError("ERR_BAD_REQUEST", <<429>>, "Request failed with status code 429")
Failure_500 == AxiosError("ERR_BAD_RESPONSE", <<500>>, "Request failed with status code 500")
Failure_404 == AxiosError("ERR_BAD_REQUEST", <<404>>, "Request failed with status code 404")
Failure_json == PlainError("Unexpected token < in JSON")
Failure_unknown == NonError("123")
\* the SyntaxError of JSON.parse for a body that is the text Gateway Timeout
Failure_jsonOfTimeoutPage ==
    PlainError("Unexpected token 'G', \"Gateway Timeout\" is not valid JSON")

\* the values fn() rejects with in the model: classified client failures,
\* errors made by the library itself and raw thrown values
FnRejections ==
    { handleError(f) : f \in {Failure_401, Failure_500, Failure_json,
                               Failure_jsonOfTimeoutPage, Failure_unknown} }
    \cup { ClientError_authentication("Token refresh timeout"),
           ClientError_configuration("Model must be a non-empty string."),
           PlainError("boom"),
           Failure_unknown }

\* what the operation fulfils with when it is invoked for the calls-th time: a
\* value that tells the invocations apart
FnValue(calls) == [class |-> "string", value |-> "ok " \o ToString(calls)]

\* the configurations the caller passes in the model
RetryConfigs ==
    [strategy : {<<>>} \cup {<<st>> : st \in Strategies},
     maxAttempts : {<<>>} \cup {<<n>> : n \in 0..MaxAttemptsBound},
     baseDelayMs : {<<>>, <<15>>},
     maxDelayMs : {<<>>, << <<>> >>, << <<20>> >>, << <<0>> >>}]

\* no call of executeWithRetry is made
RetryIdle ==
    /\ rConfig = [strategy |-> <<>>, maxAttempts |-> <<>>, baseDelayMs |-> <<>>, maxDelayMs |-> <<>>]
    /\ rPc = "idle"
    /\ rAttempt = 0
    /\ rLastError = Null
    /\ rResult = Null
    /\ rCalls = 0
    /\ rRaised = <<>>
    /\ rSleeps = <<>>

RetryInit ==
    /\ rConfig \in RetryConfigs
    /\ rPc = "start"
    /\ rAttempt = 0
    /\ rLastError = Null
    /\ rResult = Null
    /\ rCalls = 0
    /\ rRaised = <<>>
    /\ rSleeps = <<>>

\* the call of executeWithRetry up to its first await: attempt = 0, the loop
\* test, fn() is invoked; with no iteration to run, throw lastError
ExecuteWithRetry ==
    /\ rPc = "start"
    /\ rAttempt' = 0
    /\ IF LoopContinues(0, fullConfig(rConfig).maxAttempts)
       THEN /\ rCalls' = rCalls + 1
            /\ rPc' = "awaitFn"
            /\ UNCHANGED rResult
       ELSE /\ rPc' = "rejected"
            /\ rResult' = rLastError
            /\ UNCHANGED rCalls
    /\ UNCHANGED <<rConfig, rLastError, rRaised, rSleeps>>
    /\ OnlyRetry

\* return await fn(): the operation fulfils
FnResolves ==
    /\ rPc = "awaitFn"
    /\ rPc' = "resolved"
    /\ rResult' = FnValue(rCalls)
    /\ UNCHANGED <<rConfig, rAttempt, rLastError, rCalls, rRaised, rSleeps>>
    /\ OnlyRetry

\* the catch block: the operation rejects with error
FnRejects(error) ==
    /\ rPc = "awaitFn"
    /\ LET cfg == fullConfig(rConfig)
           caught == CaughtError(rLastError, error)
       IN  /\ rLastError' = caught
           /\ rRaised' = Append(rRaised, error)
           /\ IF IsLastAttempt(rAttempt, cfg.maxAttempts) \/ GivesUpOn(error)
              THEN \* break; throw lastError
                   /\ rPc' = "rejected"
                   /\ rResult' = caught
                   /\ UNCHANGED rSleeps
              ELSE \* await new Promise(resolve => setTimeout(resolve, delay))
                   /\ \E delay \in calculateDelay(cfg.strategy, rAttempt,
                                                  cfg.baseDelayMs, cfg.maxDelayMs) :
                          rSleeps' = Append(rSleeps, delay)
                   /\ rPc' = "sleeping"
                   /\ UNCHANGED rResult
    /\ UNCHANGED <<rConfig, rAttempt, rCalls>>
    /\ OnlyRetry

\* the timer fires: attempt++, the loop test, the next fn()
TimerFires ==
    /\ rPc = "sleeping"
    /\ rAttempt' = rAttempt + 1
    /\ IF LoopContinues(rAttempt + 1, fullConfig(rConfig).maxAttempts)
       THEN /\ rCalls' = rCalls + 1
            /\ rPc' = "awaitFn"
            /\ UNCHANGED rResult
       ELSE /\ rPc' = "rejected"
            /\ rResult' = rLastError
            /\ UNCHANGED rCalls
    /\ UNCHANGED <<rConfig, rLastError, rRaised, rSleeps>>
    /\ OnlyRetry

RetryNext ==
    \/ ExecuteWithRetry
    \/ FnResolves
    \/ \E error \in FnRejections : FnRejects(error)
    \/ TimerFires


(***************************************************************************)
(* The chat session.  A call of send, sendWithMetadata or stream is a      *)
(* record: kind, pc, the message sent, the reply or error it ended with,   *)
(* for a stream the content collected so far and the chunk at the yield,   *)
(* and two records of what was the case when the call began: before, the   *)
(* history just before the call, and seen, the history the client was      *)
(* called with.                                                            *)
(***************************************************************************)
\* the calls are numbered in the order they are made; call c sends the text
\* UserText(c) and a client that answers it answers Reply(c)
CallIds == 1..MaxCalls
UserText(c) == "question " \o ToString(c)
Reply(c) == "answer " \o ToString(c)
StreamChunks == {[content |-> "a", isComplete |-> FALSE], [content |-> "b", isComplete |-> TRUE]}
SessionErrors == {ClientError_network("Connection failed")}

\* how many chunks the client has produced, over all the streams
RECURSIVE ChunksOf(_, _)
ChunksOf(calls, c) == IF c = 0 THEN 0 ELSE Len(calls[c].yielded) + ChunksOf(calls, c - 1)
ChunksProduced == ChunksOf(sCalls, MaxCalls)

\* call c is the next call to be made
IsNextCall(c) == sCalls[c].pc = "idle" /\ \A d \in 1..(c - 1) : sCalls[d].pc # "idle"

Message(role, content) == [role |-> role, content |-> content]

\* Conversation.addMessage and its three wrappers
addMessage(msgs, message) == Append(msgs, message)
addUserMessage(msgs, content) == addMessage(msgs, Message("user", content))
\* an addAssistantMessage that puts the reply in the place of the last message
addAssistantMessage_ReplacesLast(msgs, content) ==
    Append(SubSeq(msgs, 1, Len(msgs) - 1), Message("assistant", content))
addAssistantMessage(msgs, content) == addMessage(msgs, Message("assistant", content))
addSystemMessage(msgs, content) == addMessage(msgs, Message("system", content))

\* a getMessages that returns this.messages itself
getMessages_ReturnsOwn(msgs) == [array |-> "own", elems |-> msgs]

\* Conversation.getMessages: [...this.messages], an array of its own ("copy")
\* holding the elements of the conversation's array ("own")
getMessages(msgs) == [array |-> "copy", elems |-> msgs]

\* Array.prototype.pop: the array without its last element (an empty array
\* stays empty)
pop(elems) == IF Len(elems) = 0 THEN elems ELSE SubSeq(elems, 1, Len(elems) - 1)

\* the catch block of send, sendWithMetadata and stream:
\*   const messages = this.conversation.getMessages(); messages.pop();
\* the conversation's array changes only when the array popped is its own
AfterCatch(msgs) ==
    LET local == getMessages(msgs)
    IN  IF local.array = "own" THEN pop(local.elems) ELSE msgs

NoCall ==
    [kind |-> "none", pc |-> "idle", message |-> "", result |-> Null,
     fullContent |-> "", chunk |-> Null, yielded |-> <<>>, before |-> <<>>, seen |-> <<>>]

\* Conversation.getMessageCount: this.messages.length
getMessageCount(msgs) == Len(msgs)

\* no array is held by a caller
NoArray == [array |-> "none", elems |-> <<>>, edit |-> "none"]

\* no session is used; a Conversation is new
SessionIdle ==
    /\ held = NoArray
    /\ messages = <<>>
    /\ sCalls = [c \in CallIds |-> NoCall]

\* new ChatSession(client) or ChatSession.withSystemMessage(client, message)
SessionInit ==
    /\ held = NoArray
    /\ messages \in {<<>>, addMessage(<<>>, Message("system", "be brief"))}
    /\ sCalls = [c \in CallIds |-> NoCall]

\* send(message) and sendWithMetadata(message) up to the await: the user
\* message is added and the client is called with the conversation
Send(c, kind) ==
    /\ IsNextCall(c)
    /\ messages' = addUserMessage(messages, UserText(c))
    /\ sCalls' = [sCalls EXCEPT ![c] =
                    [@ EXCEPT !.kind = kind, !.pc = "awaiting", !.message = UserText(c),
                              !.before = messages, !.seen = messages']]
    /\ OnlySession

\* the client's promise fulfils: the reply is added and returned
ClientFulfils(c, reply) ==
    /\ sCalls[c].pc = "awaiting"
    /\ messages' = addAssistantMessage(messages, reply)
    /\ sCalls' = [sCalls EXCEPT ![c] =
                    [@ EXCEPT !.pc = "returned", !.result = [class |-> "string", value |-> reply]]]
    /\ OnlySession

\* the client's promise rejects: the catch block, then throw error
ClientRejects(c, error) ==
    /\ sCalls[c].pc = "awaiting"
    /\ messages' = AfterCatch(messages)
    /\ sCalls' = [sCalls EXCEPT ![c] = [@ EXCEPT !.pc = "threw", !.result = error]]
    /\ OnlySession

\* stream(message): the generator object is made, its body has not started
Stream(c) ==
    /\ IsNextCall(c)
    /\ sCalls' = [sCalls EXCEPT ![c] =
                    [@ EXCEPT !.kind = "stream", !.pc = "created", !.message = UserText(c)]]
    /\ UNCHANGED messages
    /\ OnlySession

\* the first next(): the body runs up to the await of the client's first chunk
StreamStart(c) ==
    /\ sCalls[c].pc = "created"
    /\ messages' = addUserMessage(messages, sCalls[c].message)
    /\ sCalls' = [sCalls EXCEPT ![c] =
                    [@ EXCEPT !.pc = "awaitChunk", !.before = messages, !.seen = messages']]
    /\ OnlySession

\* the client's stream produces a chunk: fullContent += chunk.content; yield chunk
ClientYields(c, chunk) ==
    /\ sCalls[c].pc = "awaitChunk"
    /\ ChunksProduced < MaxChunks
    /\ sCalls' = [sCalls EXCEPT ![c] =
                    [@ EXCEPT !.pc = "yielded", !.chunk = chunk,
                              !.fullContent = @ \o chunk.content,
                              !.yielded = Append(@, chunk)]]
    /\ UNCHANGED messages
    /\ OnlySession

\* the consumer's next next(): the body resumes after the yield, adds the
\* assistant message if the chunk was the last one, and awaits the next chunk
StreamResume(c) ==
    /\ sCalls[c].pc = "yielded"
    /\ messages' = IF sCalls[c].chunk.isComplete
                   THEN addAssistantMessage(messages, sCalls[c].fullContent)
                   ELSE messages
    /\ sCalls' = [sCalls EXCEPT ![c] = [@ EXCEPT !.pc = "awaitChunk"]]
    /\ OnlySession

\* the consumer leaves its loop at a yield (return()): the body never resumes
StreamReturn(c) ==
    /\ sCalls[c].pc = "yielded"
    /\ sCalls' = [sCalls EXCEPT ![c] = [@ EXCEPT !.pc = "abandoned"]]
    /\ UNCHANGED messages
    /\ OnlySession

\* the client's stream ends: the for await loop ends and the generator returns
ClientStreamEnds(c) ==
    /\ sCalls[c].pc = "awaitChunk"
    /\ sCalls' = [sCalls EXCEPT ![c] = [@ EXCEPT !.pc = "done"]]
    /\ UNCHANGED messages
    /\ OnlySession

\* the client's stream throws: the catch block, then throw error
ClientStreamThrows(c, error) ==
    /\ sCalls[c].pc = "awaitChunk"
    /\ messages' = AfterCatch(messages)
    /\ sCalls' = [sCalls EXCEPT ![c] = [@ EXCEPT !.pc = "threw", !.result = error]]
    /\ OnlySession

SessionNext ==
    \E c \in CallIds :
        \/ \E kind \in {"send", "sendWithMetadata"} : Send(c, kind)
        \/ ClientFulfils(c, Reply(c))
        \/ \E error \in SessionErrors : ClientRejects(c, error)
        \/ Stream(c)
        \/ StreamStart(c)
        \/ \E chunk \in StreamChunks : ClientYields(c, chunk)
        \/ StreamResume(c)
        \/ StreamReturn(c)
        \/ ClientStreamEnds(c)
        \/ \E error \in SessionErrors : ClientStreamThrows(c, error)

(***************************************************************************)
(* The Conversation on its own: messages are added, the list is cleared,   *)
(* and a caller takes the array of getMessages and changes it.             *)
(***************************************************************************)
Roles == {"user", "assistant", "system"}

\* addUserMessage, addAssistantMessage, addSystemMessage
AddMessage(role) ==
    /\ Len(messages) < MaxMessages
    /\ messages' = addMessage(messages, Message(role, "text " \o ToString(Len(messages) + 1)))
    /\ UNCHANGED held
    /\ OnlyConversation

\* clear(): this.messages = []
Clear ==
    /\ messages # <<>>
    /\ messages' = <<>>
    /\ UNCHANGED held
    /\ OnlyConversation

\* const array = conversation.getMessages()
GetMessages ==
    /\ held' = [array |-> getMessages(messages).array,
                elems |-> getMessages(messages).elems, edit |-> "none"]
    /\ UNCHANGED messages
    /\ OnlyConversation

RECURSIVE reverse(_)
reverse(elems) ==
    IF elems = <<>> THEN <<>> ELSE Append(reverse(SubSeq(elems, 2, Len(elems))), elems[1])

\* what a caller does to an array: push, pop, reverse
ArrayEdits == {"push", "pop", "reverse"}
ArrayAfter(edit, elems) ==
    CASE edit = "push" -> Append(elems, Message("user", "pushed"))
      [] edit = "pop" -> pop(elems)
      [] edit = "reverse" -> reverse(elems)

\* the caller changes the array it holds; the conversation's list changes
\* with it when the array is the conversation's own
CallerEdits(edit) ==
    /\ held.array # "none"
    /\ held.edit = "none"
    /\ LET elems == IF held.array = "own" THEN messages ELSE held.elems
       IN  /\ held' = [held EXCEPT !.elems = ArrayAfter(edit, elems), !.edit = edit]
           /\ messages' = IF held.array = "own" THEN ArrayAfter(edit, elems) ELSE messages
    /\ OnlyConversation

ConversationNext ==
    \/ \E role \in Roles : AddMessage(role)
    \/ Clear
    \/ GetMessages
    \/ \E edit \in ArrayEdits : CallerEdits(edit)

(***************************************************************************)
(* The provider clients and the fan-out.  A client of the clients array is *)
(* a provider client (ChatGpt, Gemini, Claude: one request loop, written   *)
(* three times) with its retries count, or some other implementation of    *)
(* AiClient, whose call settles as it likes.                               *)
(***************************************************************************)
ProviderNames == <<"Claude", "Gemini", "ChatGPT">>

\* the client in slot i of the clients array: a provider client made with a
\* ClientConfig that holds retries and retryStrategy, or another client
ProviderClient(i, retries, retryStrategy) ==
    [kind |-> "provider", name |-> ProviderNames[((i - 1) % 3) + 1], retries |-> retries,
     retryStrategy |-> retryStrategy]
OtherClient(i) ==
    [kind |-> "other", name |-> "client" \o ToString(i), retries |-> 0,
     retryStrategy |-> "none"]

\* the clients of a fan-out have the retryStrategy of defaultClientConfig
ClientsInSlot(i) ==
    {ProviderClient(i, r, defaultRetryConfig.strategy) : r \in 0..MaxRetries}
        \cup {OtherClient(i)}

ClientArrays ==
    UNION { {cs \in [1..n -> UNION {ClientsInSlot(i) : i \in 1..n}] :
                \A i \in 1..n : cs[i] \in ClientsInSlot(i)} : n \in 0..NumClients }

\* config.retries is a number that nothing validates: a count, or less than 0
RetriesArgs == (0..MaxClientRetries) \cup {-1}

\* a clients array that holds one client: a provider client of any name,
\* retries and retryStrategy, or another client
SingleClients ==
    { <<client>> : client \in
        {ProviderClient(i, r, st) : i \in 1..3, r \in RetriesArgs, st \in Strategies}
            \cup {OtherClient(1)} }

\* what the transport answers a request of the client in slot i with: a
\* response that holds content, or a failure
Content(i) == [class |-> "string", value |-> "reply " \o ToString(i)]
HttpFailures == {Failure_401, Failure_500, Failure_unknown}

\* what the call of a client that is no provider client rejects with
OtherRejections ==
    {ClientError_api("No more mock responses"), PlainError("boom"), Failure_unknown}

Fulfilled(value) == [state |-> "fulfilled", value |-> value]
Rejected(reason) == [state |-> "rejected", value |-> reason]
Pending == [state |-> "pending"]

\* if (attempt < this.retries)
WillRetry(attempt, retries) == attempt < retries

\* a delay that does not grow with the attempt
RetryDelay_Fixed(attempt) == 1000

\* this.delay(1000 * (attempt + 1))
RetryDelay(attempt) == 1000 * (attempt + 1)

\* a catch that classifies the error as the provider clients do
OutcomeError_Classifies(error) ==
    IF instanceofClientError(error) THEN error ELSE handleError(error)

\* the catch of the mapped function:
\*   error instanceof ClientError ? error : ClientError.network('Unknown error')
OutcomeError(error) ==
    IF instanceofClientError(error) THEN error ELSE ClientError_network("Unknown error")

\* a mapped function that throws the error on
TaskOutcome_Rethrows(name, call) ==
    IF call.state = "fulfilled"
    THEN Fulfilled([name |-> name, result |-> call.value])
    ELSE Rejected(OutcomeError(call.value))

\* the promise of the mapped function, once the client's call has settled
TaskOutcome(name, call) ==
    IF call.state = "fulfilled"
    THEN Fulfilled([name |-> name, result |-> call.value])
    ELSE Fulfilled([name |-> name, result |-> OutcomeError(call.value)])

\* a join that lists the values in the order the promises settled
PromiseAll_InSettlingOrder(promises, settled) ==
    IF \A i \in DOMAIN promises : promises[i].state = "fulfilled"
    THEN Fulfilled([k \in DOMAIN promises |-> promises[settled[k]].value])
    ELSE Pending

\* Promise.race in the place of Promise.all: settled by the first promise
PromiseAll_Race(promises, settled) ==
    IF settled # <<>>
    THEN Fulfilled([k \in {1} |-> promises[settled[1]].value])
    ELSE Pending

\* Promise.all(promises): rejected with the reason of a rejected promise as
\* soon as there is one, fulfilled with the values in the order of the array
\* once every promise is fulfilled, pending otherwise; settled is the order in
\* which the promises settled
PromiseAll(promises, settled) ==
    IF \E k \in 1..Len(settled) : promises[settled[k]].state = "rejected"
    THEN LET first == CHOOSE k \in 1..Len(settled) :
                          /\ promises[settled[k]].state = "rejected"
                          /\ \A j \in 1..(k - 1) : promises[settled[j]].state # "rejected"
         IN  Rejected(promises[settled[first]].value)
    ELSE IF \A i \in DOMAIN promises : promises[i].state = "fulfilled"
    THEN Fulfilled([i \in DOMAIN promises |-> promises[i].value])
    ELSE Pending

NoTask ==
    [pc |-> "notStarted", attempt |-> 0, caught |-> Null, lastError |-> Null, requests |-> 0,
     delays |-> <<>>, call |-> Pending, promise |-> Pending]

\* executeParallel is not called
FanoutIdle ==
    /\ fFunction = "none"
    /\ fClients = <<>>
    /\ fPc = "idle"
    /\ fTasks = <<>>
    /\ fStarted = <<>>
    /\ fSettled = <<>>
    /\ fResult = Pending

FanoutInit ==
    /\ fFunction \in {"executeParallel", "executeParallelConversation"}
    /\ fClients \in ClientArrays
    /\ fPc = "start"
    /\ fTasks = [i \in DOMAIN fClients |-> NoTask]
    /\ fStarted = <<>>
    /\ fSettled = <<>>
    /\ fResult = Pending

\* the client's call settles, and the mapped function goes on to its return
Settle(task, name, call) ==
    [task EXCEPT !.pc = "done", !.call = call, !.promise = TaskOutcome(name, call)]

\* executeParallel or executeParallelConversation is called with one client
ClientInit ==
    /\ fFunction \in {"executeParallel", "executeParallelConversation"}
    /\ fClients \in SingleClients
    /\ fPc = "start"
    /\ fTasks = [i \in DOMAIN fClients |-> NoTask]
    /\ fStarted = <<>>
    /\ fSettled = <<>>
    /\ fResult = Pending

\* a mapped function that does not call its client
StartedTask_NotCalled(client) == NoTask

\* sendPrompt / sendConversation of a client up to its first await: a provider
\* client issues its first request, another client's call is pending.  When
\* retries is less than 0 the test attempt <= this.retries fails at once, the
\* loop body never runs and the call throws lastError, which is still null.
StartedTask(client) ==
    IF client.kind = "provider"
    THEN IF 0 <= client.retries
         THEN [NoTask EXCEPT !.pc = "request", !.requests = 1]
         ELSE Settle(NoTask, client.name, Rejected(Null))
    ELSE [NoTask EXCEPT !.pc = "pending"]

\* the call of executeParallel: clients.map runs the mapped function of every
\* client, in the order of the array, up to its await; then Promise.all.  The
\* calls that have thrown already settle in the order of the array.
ExecuteParallel ==
    /\ fPc = "start"
    /\ fTasks' = [i \in DOMAIN fClients |-> StartedTask(fClients[i])]
    /\ fStarted' = [i \in DOMAIN fClients |-> i]
    /\ fSettled' = SelectSeq(fStarted', LAMBDA i : fTasks'[i].pc = "done")
    /\ fPc' = "joining"
    /\ UNCHANGED <<fFunction, fClients, fResult>>
    /\ OnlyFanout

\* the request of a provider client is answered with content: return content
HttpResponds(i) ==
    /\ fPc = "joining"
    /\ i \in DOMAIN fClients
    /\ fTasks[i].pc = "request"
    /\ fTasks' = [fTasks EXCEPT ![i] = Settle(@, fClients[i].name, Fulfilled(Content(i)))]
    /\ fSettled' = Append(fSettled, i)
    /\ UNCHANGED <<fFunction, fClients, fPc, fStarted, fResult>>
    /\ OnlyFanout

\* the request of a provider client fails: the catch block of the loop, and
\* after the last attempt throw lastError
HttpFails(i, failure) ==
    /\ fPc = "joining"
    /\ i \in DOMAIN fClients
    /\ fTasks[i].pc = "request"
    /\ LET task == fTasks[i]
           error == handleError(failure)
       IN  IF WillRetry(task.attempt, fClients[i].retries)
           THEN /\ fTasks' = [fTasks EXCEPT ![i] =
                                [@ EXCEPT !.pc = "delay", !.caught = failure,
                                          !.lastError = error,
                                          !.delays = Append(@, RetryDelay(task.attempt))]]
                /\ UNCHANGED fSettled
           ELSE /\ fTasks' = [fTasks EXCEPT ![i] =
                                Settle([@ EXCEPT !.caught = failure, !.lastError = error],
                                       fClients[i].name, Rejected(error))]
                /\ fSettled' = Append(fSettled, i)
    /\ UNCHANGED <<fFunction, fClients, fPc, fStarted, fResult>>
    /\ OnlyFanout

\* throw ClientError.api('No response from <provider>')
NoResponse(name) == ClientError_api("No response from " \o name)

\* the request of a provider client is answered, and the response holds no
\* content: the throw inside the try block, which the catch block of the loop
\* catches as it catches a failure of the request
HttpRespondsEmpty(i) ==
    /\ i \in DOMAIN fClients
    /\ HttpFails(i, NoResponse(fClients[i].name))

\* the delay of a provider client is over: attempt++, the next request
DelayElapses(i) ==
    /\ fPc = "joining"
    /\ i \in DOMAIN fClients
    /\ fTasks[i].pc = "delay"
    /\ fTasks' = [fTasks EXCEPT ![i] =
                    [@ EXCEPT !.pc = "request", !.attempt = @ + 1, !.requests = @ + 1]]
    /\ UNCHANGED <<fFunction, fClients, fPc, fStarted, fSettled, fResult>>
    /\ OnlyFanout

\* the call of a client that is no provider client fulfils
OtherFulfils(i) ==
    /\ fPc = "joining"
    /\ i \in DOMAIN fClients
    /\ fTasks[i].pc = "pending"
    /\ fTasks' = [fTasks EXCEPT ![i] = Settle(@, fClients[i].name, Fulfilled(Content(i)))]
    /\ fSettled' = Append(fSettled, i)
    /\ UNCHANGED <<fFunction, fClients, fPc, fStarted, fResult>>
    /\ OnlyFanout

\* the call of a client that is no provider client rejects
OtherRejects(i, error) ==
    /\ fPc = "joining"
    /\ i \in DOMAIN fClients
    /\ fTasks[i].pc = "pending"
    /\ fTasks' = [fTasks EXCEPT ![i] = Settle(@, fClients[i].name, Rejected(error))]
    /\ fSettled' = Append(fSettled, i)
    /\ UNCHANGED <<fFunction, fClients, fPc, fStarted, fResult>>
    /\ OnlyFanout

\* the promise of Promise.all settles, and executeParallel's with it
Join ==
    /\ fPc = "joining"
    /\ LET all == PromiseAll([i \in DOMAIN fTasks |-> fTasks[i].promise], fSettled)
       IN  /\ all.state # "pending"
           /\ fPc' = IF all.state = "fulfilled" THEN "resolved" ELSE "rejected"
           /\ fResult' = all
    /\ UNCHANGED <<fFunction, fClients, fTasks, fStarted, fSettled>>
    /\ OnlyFanout

FanoutNext ==
    \/ ExecuteParallel
    \/ \E i \in 1..NumClients : HttpResponds(i)
    \/ \E i \in 1..NumClients, failure \in HttpFailures : HttpFails(i, failure)
    \/ \E i \in 1..NumClients : HttpRespondsEmpty(i)
    \/ \E i \in 1..NumClients : DelayElapses(i)
    \/ \E i \in 1..NumClients : OtherFulfils(i)
    \/ \E i \in 1..NumClients, error \in OtherRejections : OtherRejects(i, error)
    \/ Join

(***************************************************************************)
(* The streaming calls of the provider clients.  sendPromptStream and      *)
(* sendConversationStream of Claude and of ChatGpt run one decoder, which  *)
(* differs between the two clients in the events it looks for.  The feed   *)
(* is a string of bytes: a character of the string is one byte, and the    *)
(* two bytes of a two-byte UTF-8 character are written ByteC3 and ByteA9.  *)
(* A step of the decoder takes one transport chunk and runs the body of    *)
(* the for await loop on it, the consumer taking every chunk yielded.      *)
(***************************************************************************)
\* String.prototype.startsWith, endsWith, slice(n)
startsWith(s, t) == Len(s) >= Len(t) /\ SubSeq(s, 1, Len(t)) = t
endsWith(s, t) == Len(s) >= Len(t) /\ SubSeq(s, Len(s) - Len(t) + 1, Len(s)) = t
slice(s, n) == SubSeq(s, n + 1, Len(s))

\* the positions of s that hold one of the characters cs, and the first of them
PositionsOf(s, cs) == {i \in 1..Len(s) : SubSeq(s, i, i) \in cs}
FirstOf(ps) == CHOOSE i \in ps : \A j \in ps : i <= j

\* String.prototype.trim
IsWhiteSpace(c) == c \in {" ", "\t", "\r", "\n"}
trim(s) ==
    LET inked == {i \in 1..Len(s) : ~IsWhiteSpace(SubSeq(s, i, i))}
    IN  IF inked = {} THEN ""
        ELSE SubSeq(s, FirstOf(inked), CHOOSE i \in inked : \A j \in inked : j <= i)

\* String.prototype.split('\n')
RECURSIVE split(_)
split(s) ==
    LET ps == PositionsOf(s, {"\n"})
    IN  IF ps = {} THEN <<s>>
        ELSE <<SubSeq(s, 1, FirstOf(ps) - 1)>> \o split(SubSeq(s, FirstOf(ps) + 1, Len(s)))

\* the bytes 0xC3 0xA9 of the character U+00E9, that character, and U+FFFD
ByteC3 == "^"
ByteA9 == "~"
CharE9 == "@"
CharFFFD == "?"

\* chunk.toString(): the UTF-8 decoding of the bytes of one transport chunk.
\* A lead byte with its continuation byte is the character; a lead byte
\* without it, and a continuation byte without a lead byte, is U+FFFD.
RECURSIVE toString(_)
toString(bytes) ==
    LET ps == PositionsOf(bytes, {ByteC3, ByteA9})
    IN  IF ps = {} THEN bytes
        ELSE LET i == FirstOf(ps)
                 paired == /\ SubSeq(bytes, i, i) = ByteC3
                           /\ i < Len(bytes)
                           /\ SubSeq(bytes, i + 1, i + 1) = ByteA9
             IN  SubSeq(bytes, 1, i - 1)
                    \o (IF paired THEN CharE9 ELSE CharFFFD)
                    \o toString(SubSeq(bytes, (IF paired THEN i + 2 ELSE i + 1), Len(bytes)))

\* the events of the two providers, as JSON texts
ClaudeDeltaOpen == "{\"type\":\"content_block_delta\",\"delta\":{\"text\":\""
ClaudeDeltaClose == "\"}}"
ClaudeStop == "{\"type\":\"message_stop\"}"
ChatGptDeltaOpen == "{\"choices\":[{\"delta\":{\"content\":\""
ChatGptDeltaClose == "\"}}]}"
ChatGptFinish == "{\"choices\":[{\"delta\":{},\"finish_reason\":\"stop\"}]}"

\* the characters between open and close are the characters of a JSON string
\* that needs no escape
IsStringOf(data, open, close) ==
    /\ Len(data) >= Len(open) + Len(close)
    /\ startsWith(data, open)
    /\ endsWith(data, close)
    /\ PositionsOf(SubSeq(data, Len(open) + 1, Len(data) - Len(close)), {"\"", "\\"}) = {}

StringOf(data, open, close) == SubSeq(data, Len(open) + 1, Len(data) - Len(close))

\* JSON.parse(data), for the texts a feed of the model can hold: the value
\* parsed, of which the decoders read type, delta?.text and
\* choices?.[0]?.delta?.content (<<>> when undefined), or a SyntaxError
SyntaxError == [valid |-> FALSE, type |-> <<>>, text |-> <<>>, content |-> <<>>]
JSON_parse(data) ==
    IF IsStringOf(data, ClaudeDeltaOpen, ClaudeDeltaClose)
    THEN [valid |-> TRUE, type |-> <<"content_block_delta">>,
          text |-> <<StringOf(data, ClaudeDeltaOpen, ClaudeDeltaClose)>>, content |-> <<>>]
    ELSE IF data = ClaudeStop
    THEN [valid |-> TRUE, type |-> <<"message_stop">>, text |-> <<>>, content |-> <<>>]
    ELSE IF IsStringOf(data, ChatGptDeltaOpen, ChatGptDeltaClose)
    THEN [valid |-> TRUE, type |-> <<>>, text |-> <<>>,
          content |-> <<StringOf(data, ChatGptDeltaOpen, ChatGptDeltaClose)>>]
    ELSE IF data = ChatGptFinish
    THEN [valid |-> TRUE, type |-> <<>>, text |-> <<>>, content |-> <<>>]
    ELSE SyntaxError

\* if (content): undefined and '' are falsy
Truthy(content) == content # <<>> /\ content[1] # ""

\* what the body of the for loop does with a line
Skip == [kind |-> "skip", content |-> ""]
Yield(content) == [kind |-> "chunk", content |-> content]
YieldAndReturn == [kind |-> "final", content |-> ""]

\* a catch block that ends the stream
OnInvalidJson_EndsStream(data) == YieldAndReturn

\* catch (e) { /* Skip invalid JSON lines */ }
OnInvalidJson(data) == Skip

\* the body of for (const line of lines)
DecodeLine(client, line) ==
    IF ~startsWith(line, "data: ") THEN Skip
    ELSE LET data == trim(slice(line, 6))
             parsed == JSON_parse(data)
         IN  IF data = "[DONE]" THEN YieldAndReturn
             ELSE IF ~parsed.valid THEN OnInvalidJson(data)
             ELSE IF client = "Claude"
             THEN IF parsed.type = <<"content_block_delta">>
                  THEN IF Truthy(parsed.text) THEN Yield(parsed.text[1]) ELSE Skip
                  ELSE IF parsed.type = <<"message_stop">> THEN YieldAndReturn
                  ELSE Skip
             ELSE IF Truthy(parsed.content) THEN Yield(parsed.content[1]) ELSE Skip

\* the chunk yielded for an event
StreamChunk(event) == [content |-> event.content, isComplete |-> event.kind = "final"]

\* a loop that goes on after the final chunk
Returns_Never(event) == FALSE

\* return; after the final chunk
Returns(event) == event.kind = "final"

\* for (const line of lines) { ... }: read is the lines taken up so far, out
\* the chunks yielded so far, returned whether the generator has returned
RECURSIVE ReadLines(_, _, _)
ReadLines(client, lines, st) ==
    IF lines = <<>> \/ st.returned THEN st
    ELSE LET event == DecodeLine(client, Head(lines))
         IN  ReadLines(client, Tail(lines),
                       [read |-> Append(st.read, Head(lines)),
                        out |-> IF event.kind = "skip" THEN st.out
                                ELSE Append(st.out, StreamChunk(event)),
                        returned |-> Returns(event)])

\* the lines of the feeds of the model
DeltaLine(client) ==
    IF client = "Claude"
    THEN "data: " \o ClaudeDeltaOpen \o "H" \o ByteC3 \o ByteA9 \o ClaudeDeltaClose
    ELSE "data: " \o ChatGptDeltaOpen \o "H" \o ByteC3 \o ByteA9 \o ChatGptDeltaClose
EndLine(client) ==
    IF client = "Claude" THEN "data: " \o ClaudeStop ELSE "data: " \o ChatGptFinish
DoneLine == "data: [DONE]"
MalformedLine == "data: {\"type\":"
BlankLine == ""
FeedLines(client) == {DeltaLine(client), EndLine(client), DoneLine, MalformedLine, BlankLine}

\* the lines joined, each but the last followed by a newline
RECURSIVE Joined(_)
Joined(ls) ==
    IF Len(ls) = 0 THEN ""
    ELSE IF Len(ls) = 1 THEN ls[1]
    ELSE ls[1] \o "\n" \o Joined(Tail(ls))

\* the feeds: up to MaxFeedLines lines, the last of them terminated or not
Feeds(client) ==
    UNION { { Joined(ls) : ls \in [1..n -> FeedLines(client)] }
                \cup { Joined(ls) \o "\n" : ls \in [1..n -> FeedLines(client)] }
            : n \in 1..MaxFeedLines }

\* what the transport fails with while the stream is read
StreamFailures == {PlainError("aborted")}

\* no streaming call is made
StreamIdle ==
    /\ dClient = "none"
    /\ dFeed = ""
    /\ dRest = ""
    /\ dPc = "idle"
    /\ buffer = ""
    /\ dLines = <<>>
    /\ dOut = <<>>
    /\ dError = Null

\* the call up to await this.http.post(...)
StreamInit ==
    /\ dClient \in {"Claude", "ChatGPT"}
    /\ dFeed \in Feeds(dClient)
    /\ dRest = dFeed
    /\ dPc = "opening"
    /\ buffer = ""
    /\ dLines = <<>>
    /\ dOut = <<>>
    /\ dError = Null

\* the request is answered: let buffer = '', and the first chunk is awaited
PostResolves ==
    /\ dPc = "opening"
    /\ dPc' = "reading"
    /\ buffer' = ""
    /\ UNCHANGED <<dClient, dFeed, dRest, dLines, dOut, dError>>
    /\ OnlyStream

\* the request fails: catch (error) { throw this.handleError(error) }
PostFails(failure) ==
    /\ dPc = "opening"
    /\ dPc' = "threw"
    /\ dError' = handleError(failure)
    /\ UNCHANGED <<dClient, dFeed, dRest, buffer, dLines, dOut>>
    /\ OnlyStream

\* the sizes of the transport chunks of the model: a chunk holds the next n
\* bytes of the feed, or what is left of it when that is less
ChunkBytes == {1, 2, 16, 80, MaxFeedBytes}

\* the transport delivers the next chunk: the body of the for await loop
TransportDelivers(n) ==
    /\ dPc = "reading"
    /\ dRest # ""
    /\ LET chunk == SubSeq(dRest, 1, Min(n, Len(dRest)))
           lines == split(buffer \o toString(chunk))
           st == ReadLines(dClient, SubSeq(lines, 1, Len(lines) - 1),
                           [read |-> dLines, out |-> dOut, returned |-> FALSE])
       IN  /\ buffer' = lines[Len(lines)]
           /\ dLines' = st.read
           /\ dOut' = st.out
           /\ dPc' = IF st.returned THEN "returned" ELSE "reading"
    /\ dRest' = SubSeq(dRest, Min(n, Len(dRest)) + 1, Len(dRest))
    /\ UNCHANGED <<dClient, dFeed, dError>>
    /\ OnlyStream

\* the transport has delivered every byte and closes: the for await loop ends
TransportEnds ==
    /\ dPc = "reading"
    /\ dRest = ""
    /\ dPc' = "ended"
    /\ UNCHANGED <<dClient, dFeed, dRest, buffer, dLines, dOut, dError>>
    /\ OnlyStream

\* the transport fails: catch (error) { throw this.handleError(error) }
TransportFails(error) ==
    /\ dPc = "reading"
    /\ dPc' = "threw"
    /\ dError' = handleError(error)
    /\ UNCHANGED <<dClient, dFeed, dRest, buffer, dLines, dOut>>
    /\ OnlyStream

StreamNext ==
    \/ PostResolves
    \/ \E failure \in HttpFailures : PostFails(failure)
    \/ \E n \in ChunkBytes : TransportDelivers(n)
    \/ TransportEnds
    \/ \E error \in StreamFailures : TransportFails(error)

(***************************************************************************)
(* ClientMetrics.  A quotient of two numbers is kept as the pair of them;  *)
(* the literal 0 of a guarded quotient is 0 / 1.                           *)
(***************************************************************************)
Quotient(num, den) == [num |-> num, den |-> den]
Zero == Quotient(0, 1)

Max(a, b) == IF a >= b THEN a ELSE b

\* Math.ceil(a / b) for a >= 0, b > 0
CeilDiv(a, b) == (a + b - 1) \div b

\* the arguments of recordSuccess in the model: nothing measured, or a
\* latency with token counts
LatencyValues == {10, 20, 30, 40, 100}
SuccessArgs ==
    {[latencyMs |-> <<>>, promptTokens |-> <<>>, completionTokens |-> <<>>],
     [latencyMs |-> <<0>>, promptTokens |-> <<>>, completionTokens |-> <<0>>]}
        \cup {[latencyMs |-> <<l>>, promptTokens |-> <<7>>, completionTokens |-> <<11>>] :
                l \in LatencyValues}

\* Array.prototype.sort((a, b) => a - b)
RECURSIVE Insert(_, _)
Insert(x, sorted) ==
    IF sorted = <<>> THEN <<x>>
    ELSE IF x - Head(sorted) < 0 THEN <<x>> \o sorted
    ELSE <<Head(sorted)>> \o Insert(x, Tail(sorted))

\* a sort that leaves the array in the order it has
sort_KeepsOrder(array) == array

RECURSIVE sort(_)
sort(array) == IF array = <<>> THEN <<>> ELSE Insert(array[Len(array)], sort(SubSeq(array, 1, Len(array) - 1)))

\* an index taken with Math.floor
PercentileIndex_Floor(percentile, length) == Max(0, (percentile * length) \div 100)

\* Math.max(0, Math.ceil((percentile / 100) * sorted.length) - 1)
PercentileIndex(percentile, length) == Max(0, CeilDiv(percentile * length, 100) - 1)

\* calculatePercentile(percentile): the value returned (arrays count from 0,
\* sequences from 1)
calculatePercentile(array, percentile) ==
    IF Len(array) = 0 THEN 0
    ELSE sort(array)[PercentileIndex(percentile, Len(array)) + 1]

\* a calculatePercentile that sorts this.latencies itself
LatenciesAfterPercentile_SortedInPlace(array) == sort(array)

\* this.latencies after calculatePercentile: the array sorted is the copy
\* [...this.latencies]
LatenciesAfterPercentile(array) == array

\* a quotient taken without looking at the divisor
averageLatencyMs_Unguarded(total, array) == Quotient(total, Len(array))

\* this.latencies.length > 0 ? this.totalLatencyMs / this.latencies.length : 0
averageLatencyMs(total, array) ==
    IF Len(array) > 0 THEN Quotient(total, Len(array)) ELSE Zero

\* an argument tested as if it were a condition: 0 counts as not given
IsGiven_Truthy(arg) == arg # <<>> /\ arg[1] # 0

\* arg !== undefined
IsGiven(arg) == arg # <<>>

\* no call of recordSuccess or recordFailure has been made
NoCalls == [succeeded |-> 0, failed |-> 0, latencies |-> <<>>]

\* the value of a snapshot variable that holds no snapshot
NoSnapshot == [taken |-> FALSE]

\* the object getSnapshot returns
MetricsSnapshot ==
    LET durationMs == now - startTime
    IN  [taken |-> TRUE,
         requestsTotal |-> requestsTotal,
         requestsSucceeded |-> requestsSucceeded,
         requestsFailed |-> requestsFailed,
         successRate |-> IF requestsTotal > 0
                         THEN Quotient(requestsSucceeded * 100, requestsTotal)
                         ELSE Zero,
         averageLatencyMs |-> averageLatencyMs(totalLatencyMs, latencies),
         p50LatencyMs |-> calculatePercentile(latencies, 50),
         p95LatencyMs |-> calculatePercentile(latencies, 95),
         p99LatencyMs |-> calculatePercentile(latencies, 99),
         promptTokensTotal |-> promptTokensTotal,
         completionTokensTotal |-> completionTokensTotal,
         totalTokens |-> promptTokensTotal + completionTokensTotal,
         cacheHits |-> cacheHits,
         cacheMisses |-> cacheMisses,
         cacheHitRate |-> IF (cacheHits + cacheMisses) > 0
                          THEN Quotient(cacheHits * 100, cacheHits + cacheMisses)
                          ELSE Zero,
         durationMs |-> durationMs,
         requestsPerSecond |-> IF durationMs > 0
                               THEN Quotient(requestsTotal * 1000, durationMs)
                               ELSE Zero]

\* no ClientMetrics object is used
MetricsIdle ==
    /\ requestsTotal = 0
    /\ requestsSucceeded = 0
    /\ requestsFailed = 0
    /\ totalLatencyMs = 0
    /\ latencies = <<>>
    /\ promptTokensTotal = 0
    /\ completionTokensTotal = 0
    /\ cacheHits = 0
    /\ cacheMisses = 0
    /\ startTime = 0
    /\ now = 0
    /\ snapshot = NoSnapshot
    /\ returned = NoSnapshot
    /\ called = NoCalls

\* new ClientMetrics(): the field initialisers, startTime = Date.now()
MetricsInit ==
    /\ requestsTotal = 0
    /\ requestsSucceeded = 0
    /\ requestsFailed = 0
    /\ totalLatencyMs = 0
    /\ latencies = <<>>
    /\ promptTokensTotal = 0
    /\ completionTokensTotal = 0
    /\ cacheHits = 0
    /\ cacheMisses = 0
    /\ startTime = 0
    /\ now = 0
    /\ snapshot = NoSnapshot
    /\ returned = NoSnapshot
    /\ called = NoCalls

recordSuccess(args) ==
    /\ requestsTotal < MaxRequests
    /\ requestsTotal' = requestsTotal + 1
    /\ requestsSucceeded' = requestsSucceeded + 1
    /\ IF IsGiven(args.latencyMs)
       THEN /\ totalLatencyMs' = totalLatencyMs + args.latencyMs[1]
            /\ latencies' = Append(latencies, args.latencyMs[1])
       ELSE UNCHANGED <<totalLatencyMs, latencies>>
    /\ promptTokensTotal' =
            IF IsGiven(args.promptTokens) THEN promptTokensTotal + args.promptTokens[1]
            ELSE promptTokensTotal
    /\ completionTokensTotal' =
            IF IsGiven(args.completionTokens)
            THEN completionTokensTotal + args.completionTokens[1]
            ELSE completionTokensTotal
    /\ snapshot' = NoSnapshot
    /\ returned' = NoSnapshot
    /\ called' = [called EXCEPT !.succeeded = @ + 1,
                                !.latencies = @ \o args.latencyMs]
    /\ UNCHANGED <<requestsFailed, cacheHits, cacheMisses, startTime, now>>
    /\ OnlyMetrics

recordFailure ==
    /\ requestsTotal < MaxRequests
    /\ requestsTotal' = requestsTotal + 1
    /\ requestsFailed' = requestsFailed + 1
    /\ snapshot' = NoSnapshot
    /\ returned' = NoSnapshot
    /\ called' = [called EXCEPT !.failed = @ + 1]
    /\ UNCHANGED <<requestsSucceeded, totalLatencyMs, latencies, promptTokensTotal,
                   completionTokensTotal, cacheHits, cacheMisses, startTime, now>>
    /\ OnlyMetrics

recordCacheHit ==
    /\ cacheHits + cacheMisses < MaxCacheEvents
    /\ cacheHits' = cacheHits + 1
    /\ snapshot' = NoSnapshot
    /\ returned' = NoSnapshot
    /\ UNCHANGED called
    /\ UNCHANGED <<requestsTotal, requestsSucceeded, requestsFailed, totalLatencyMs,
                   latencies, promptTokensTotal, completionTokensTotal, cacheMisses,
                   startTime, now>>
    /\ OnlyMetrics

recordCacheMiss ==
    /\ cacheHits + cacheMisses < MaxCacheEvents
    /\ cacheMisses' = cacheMisses + 1
    /\ snapshot' = NoSnapshot
    /\ returned' = NoSnapshot
    /\ UNCHANGED called
    /\ UNCHANGED <<requestsTotal, requestsSucceeded, requestsFailed, totalLatencyMs,
                   latencies, promptTokensTotal, completionTokensTotal, cacheHits,
                   startTime, now>>
    /\ OnlyMetrics

\* getSnapshot(): the object is built, and calculatePercentile has run
getSnapshot ==
    /\ snapshot' = MetricsSnapshot
    /\ returned' = MetricsSnapshot
    /\ UNCHANGED called
    /\ latencies' = LatenciesAfterPercentile(latencies)
    /\ UNCHANGED <<requestsTotal, requestsSucceeded, requestsFailed, totalLatencyMs,
                   promptTokensTotal, completionTokensTotal, cacheHits, cacheMisses,
                   startTime, now>>
    /\ OnlyMetrics

\* a reset that leaves the latency list as it is
reset_KeepsLatencies ==
    /\ requestsTotal' = 0
    /\ requestsSucceeded' = 0
    /\ requestsFailed' = 0
    /\ totalLatencyMs' = 0
    /\ promptTokensTotal' = 0
    /\ completionTokensTotal' = 0
    /\ cacheHits' = 0
    /\ cacheMisses' = 0
    /\ startTime' = now
    /\ snapshot' = NoSnapshot
    /\ returned' = NoSnapshot
    /\ called' = NoCalls
    /\ UNCHANGED <<latencies, now>>
    /\ OnlyMetrics

\* a reset that leaves the cache counters as they are
reset_KeepsCacheCounters ==
    /\ requestsTotal' = 0
    /\ requestsSucceeded' = 0
    /\ requestsFailed' = 0
    /\ totalLatencyMs' = 0
    /\ latencies' = <<>>
    /\ promptTokensTotal' = 0
    /\ completionTokensTotal' = 0
    /\ startTime' = now
    /\ snapshot' = NoSnapshot
    /\ returned' = NoSnapshot
    /\ called' = NoCalls
    /\ UNCHANGED <<cacheHits, cacheMisses, now>>
    /\ OnlyMetrics

reset ==
    /\ requestsTotal' = 0
    /\ requestsSucceeded' = 0
    /\ requestsFailed' = 0
    /\ totalLatencyMs' = 0
    /\ latencies' = <<>>
    /\ promptTokensTotal' = 0
    /\ completionTokensTotal' = 0
    /\ cacheHits' = 0
    /\ cacheMisses' = 0
    /\ startTime' = now
    /\ snapshot' = NoSnapshot
    /\ returned' = NoSnapshot
    /\ called' = NoCalls
    /\ UNCHANGED now
    /\ OnlyMetrics

\* a millisecond passes
Tick ==
    /\ now < MaxClock
    /\ now' = now + 1
    /\ snapshot' = NoSnapshot
    /\ UNCHANGED <<metricsFields, returned, called>>
    /\ OnlyMetrics

MetricsNext ==
    \/ \E args \in SuccessArgs : recordSuccess(args)
    \/ recordFailure
    \/ recordCacheHit
    \/ recordCacheMiss
    \/ getSnapshot
    \/ reset
    \/ Tick

(***************************************************************************)
(* The classifier on its own: a caught value is handed to handleError,     *)
(* and the ClientError it returns to isRetryableError.                     *)
(***************************************************************************)
\* error.code of a transport error
TransportCodes ==
    {"ECONNABORTED", "ETIMEDOUT", "ECONNREFUSED", "ENOTFOUND",
     "ERR_BAD_REQUEST", "ERR_BAD_RESPONSE"}

\* error.response.status
Statuses == {400, 401, 403, 404, 429, 500, 503, 599}

\* the message the transport gives a response whose status it rejects
StatusMessage(status) == "Request failed with status code " \o ToString(status)

\* error.message of a transport error
TransportMessages ==
    {StatusMessage(status) : status \in Statuses}
        \cup {"Network Error", "timeout of 1000ms exceeded", "oops"}

\* the values handleError is called with in the model
CaughtValues ==
    {AxiosError(code, response, message) :
        code \in TransportCodes,
        response \in {<<>>} \cup {<<status>> : status \in Statuses},
        message \in TransportMessages}
    \cup {PlainError(message) : message \in {"json", "Unexpected token < in JSON", "timeout"}}
    \cup {ClientError_configuration("Model must be a non-empty string.")}
    \cup {NonError(v) : v \in {"123", "null", "undefined"}}

\* no value is being classified
ClassifyIdle ==
    /\ hError = Null
    /\ hPc = "idle"
    /\ hResult = Null
    /\ hRetryable = <<>>

\* a catch block has caught a value
ClassifyInit ==
    /\ hError \in CaughtValues
    /\ hPc = "caught"
    /\ hResult = Null
    /\ hRetryable = <<>>

\* this.handleError(error)
HandleError ==
    /\ hPc = "caught"
    /\ hResult' = handleError(hError)
    /\ hPc' = "classified"
    /\ UNCHANGED <<hError, hRetryable>>
    /\ OnlyClassify

\* isRetryableError(error) of the ClientError returned
IsRetryableError ==
    /\ hPc = "classified"
    /\ hRetryable' = <<isRetryableError(hResult)>>
    /\ hPc' = "decided"
    /\ UNCHANGED <<hError, hResult>>
    /\ OnlyClassify

ClassifyNext ==
    \/ HandleError
    \/ IsRetryableError

(***************************************************************************)
(* createClient.  A client is the record of its class, what name()         *)
(* returns and what model() returns; a call returns a value or throws one. *)
(***************************************************************************)
ChatGpt(apiKey, model) == [class |-> "ChatGpt", name |-> "ChatGPT", model |-> model]
Gemini(apiKey, model) == [class |-> "Gemini", name |-> "Gemini", model |-> model]
Claude(apiKey, model) == [class |-> "Claude", name |-> "Claude", model |-> model]

Return(value) == [how |-> "return", value |-> value]
Throw(value) == [how |-> "throw", value |-> value]
NotEnded == [how |-> "none", value |-> Null]

\* a createClient whose switch looks at the provider as it was written
createClient_CaseSensitive(provider, apiKey, model) ==
    IF provider = "" THEN
        Throw(ClientError_configuration("Provider must be a non-empty string."))
    ELSE IF apiKey = "" THEN
        Throw(ClientError_configuration("API key must be a non-empty string."))
    ELSE IF model = "" THEN
        Throw(ClientError_configuration("Model must be a non-empty string."))
    ELSE IF provider \in {"openai", "gpt", "chatgpt"} THEN Return(ChatGpt(apiKey, model))
    ELSE IF provider \in {"google", "gemini"} THEN Return(Gemini(apiKey, model))
    ELSE IF provider \in {"anthropic", "claude"} THEN Return(Claude(apiKey, model))
    ELSE Throw(ClientError_configuration(
                "Unknown provider: " \o provider
                    \o ". Supported providers: openai, google, anthropic"))

\* createClient(provider, apiKey, model, config) for string arguments: !s is
\* true of the empty string
createClient(provider, apiKey, model) ==
    IF provider = "" THEN
        Throw(ClientError_configuration("Provider must be a non-empty string."))
    ELSE IF apiKey = "" THEN
        Throw(ClientError_configuration("API key must be a non-empty string."))
    ELSE IF model = "" THEN
        Throw(ClientError_configuration("Model must be a non-empty string."))
    ELSE LET name == toLowerCase(provider)
         IN  IF name \in {"openai", "gpt", "chatgpt"} THEN Return(ChatGpt(apiKey, model))
             ELSE IF name \in {"google", "gemini"} THEN Return(Gemini(apiKey, model))
             ELSE IF name \in {"anthropic", "claude"} THEN Return(Claude(apiKey, model))
             ELSE Throw(ClientError_configuration(
                         "Unknown provider: " \o provider
                             \o ". Supported providers: openai, google, anthropic"))

\* the arguments createClient is called with in the model
ProviderArgs ==
    {"", "openai", "OpenAI", "gpt", "GPT", "chatgpt", "ChatGPT", "google", "Google",
     "gemini", "GEMINI", "anthropic", "Anthropic", "claude", "Claude",
     "mistral", "open ai", "claude-3"}
ApiKeyArgs == {"", "test-key"}
ModelArgs == {"", "gpt-4", "claude-3"}

\* createClient is not called
FactoryIdle ==
    /\ cProvider = ""
    /\ cApiKey = ""
    /\ cModel = ""
    /\ cPc = "idle"
    /\ cOutcome = NotEnded

\* the call of createClient
FactoryInit ==
    /\ cProvider \in ProviderArgs
    /\ cApiKey \in ApiKeyArgs
    /\ cModel \in ModelArgs
    /\ cPc = "called"
    /\ cOutcome = NotEnded

\* the body of createClient
CreateClient ==
    /\ cPc = "called"
    /\ cOutcome' = createClient(cProvider, cApiKey, cModel)
    /\ cPc' = "done"
    /\ UNCHANGED <<cProvider, cApiKey, cModel>>
    /\ OnlyFactory

FactoryNext == CreateClient

(***************************************************************************)
(* The specifications: one per component, the other components idle.       *)
(***************************************************************************)
InitRetry == RetryInit /\ SessionIdle /\ FanoutIdle /\ StreamIdle /\ MetricsIdle /\ ClassifyIdle /\ FactoryIdle
SpecRetry == InitRetry /\ [][RetryNext]_vars

InitSession == SessionInit /\ RetryIdle /\ FanoutIdle /\ StreamIdle /\ MetricsIdle /\ ClassifyIdle /\ FactoryIdle
SpecSession == InitSession /\ [][SessionNext]_vars

InitFanout == FanoutInit /\ RetryIdle /\ SessionIdle /\ StreamIdle /\ MetricsIdle /\ ClassifyIdle /\ FactoryIdle
SpecFanout == InitFanout /\ [][FanoutNext]_vars

\* the continuation of a settled promise is a job of the microtask queue, which
\* the event loop runs: the join is taken once it can be.  Nothing is assumed of
\* the network or of the timers.
SpecFanoutFair == SpecFanout /\ WF_vars(Join)

\* one client on its own: the call of the client, and the outcome made of it
InitClient ==
    ClientInit /\ RetryIdle /\ SessionIdle /\ StreamIdle /\ MetricsIdle /\ ClassifyIdle
        /\ FactoryIdle
SpecClient == InitClient /\ [][FanoutNext]_vars

\* a new Conversation
InitConversation ==
    SessionIdle /\ RetryIdle /\ FanoutIdle /\ StreamIdle /\ MetricsIdle /\ ClassifyIdle
        /\ FactoryIdle
SpecConversation == InitConversation /\ [][ConversationNext]_vars

InitStream == StreamInit /\ RetryIdle /\ SessionIdle /\ FanoutIdle /\ MetricsIdle /\ ClassifyIdle /\ FactoryIdle
SpecStream == InitStream /\ [][StreamNext]_vars

InitMetrics == MetricsInit /\ RetryIdle /\ SessionIdle /\ FanoutIdle /\ StreamIdle /\ ClassifyIdle /\ FactoryIdle
SpecMetrics == InitMetrics /\ [][MetricsNext]_vars

InitClassify ==
    ClassifyInit /\ RetryIdle /\ SessionIdle /\ FanoutIdle /\ StreamIdle /\ MetricsIdle /\ FactoryIdle
SpecClassify == InitClassify /\ [][ClassifyNext]_vars

InitFactory ==
    FactoryInit /\ RetryIdle /\ SessionIdle /\ FanoutIdle /\ StreamIdle /\ MetricsIdle
        /\ ClassifyIdle
SpecFactory == InitFactory /\ [][FactoryNext]_vars

(***************************************************************************)
(* Properties of the chat session and of executeWithRetry.                 *)
(***************************************************************************)
rMaxAttempts == fullConfig(rConfig).maxAttempts
rLastRaised == rRaised[Len(rRaised)]
AllRaisedRetryable == \A k \in 1..Len(rRaised) : isRetryableError(rRaised[k])

\* C1: when the client call made by send, sendWithMetadata or stream rejects,
\* the history after the failure is exactly the history before the call (the
\* user message added at the start of the call is removed again).  Stated for
\* a call that no other call overlaps or follows.
C1_FailedCallRestoresHistory ==
    \A c \in CallIds :
        (sCalls[c].pc = "threw" /\ \A d \in CallIds \ {c} : sCalls[d].pc = "idle") =>
            messages = sCalls[c].before

\* C2: with maxAttempts = n and an operation that fails on every call with a
\* retryable error, the operation is invoked exactly n + 1 times and the
\* promise then rejects: while only retryable failures were seen there are at
\* most n + 1 invocations, the promise is rejected exactly when the (n + 1)-th
\* failure is in, and not before.
C2_RetryableFailuresMakeNPlusOneCalls ==
    AllRaisedRetryable =>
        /\ rCalls <= rMaxAttempts + 1
        /\ (rPc = "rejected" => rCalls = rMaxAttempts + 1 /\ Len(rRaised) = rMaxAttempts + 1)
        /\ (Len(rRaised) = rMaxAttempts + 1 => rPc = "rejected")

C2_Witness ==
    /\ rPc = "rejected"
    /\ AllRaisedRetryable
    /\ rMaxAttempts = 2
    /\ rCalls = 3

\* C3 as stated: when executeWithRetry gives up, the value it rejects with is
\* the value raised by the last attempt that was made.
C3_RejectsWithLastRaised ==
    (rPc = "rejected" /\ Len(rRaised) > 0) => rResult = rLastRaised

\* C3, amended: when executeWithRetry gives up, it rejects with the value
\* raised by the last attempt when that value is an Error object, and with a
\* new Error('Unknown error') when the last attempt raised a value that is no
\* Error object; never with the error of an earlier attempt.
C3_RejectsWithLastCaught ==
    (rPc = "rejected" /\ Len(rRaised) > 0) =>
        rResult = (IF instanceofError(rLastRaised) THEN rLastRaised
                   ELSE PlainError("Unknown error"))

C3_Witness ==
    /\ rPc = "rejected"
    /\ Len(rRaised) >= 2
    /\ rRaised[1] # rLastRaised
    /\ rResult = rLastRaised

\* C4: when the operation fails with a ClientError of kind Authentication or
\* Configuration, whatever its message and whatever maxAttempts,
\* executeWithRetry invokes the operation exactly once and sleeps zero times.
C4_AuthAndConfigAreNeverRetried ==
    ( /\ Len(rRaised) > 0
      /\ instanceofClientError(rRaised[1])
      /\ rRaised[1].type \in {"Authentication", "Configuration"} ) =>
        /\ rCalls = 1
        /\ rSleeps = <<>>

\* C5: a failure the classifier cannot classify (no transport error, no Error
\* object) becomes a Network-kind ClientError that is not retryable:
\* isRetryableError is false for it and executeWithRetry makes no further
\* attempt after it.
C5_UnclassifiableIsNotRetried ==
    \A k \in 1..Len(rRaised) :
        rRaised[k] = handleError(Failure_unknown) =>
            /\ rRaised[k].type = "Network"
            /\ ~isRetryableError(rRaised[k])
            /\ k = Len(rRaised)
            /\ rPc = "rejected"

\* C25: a Parse-kind ClientError is never retryable, for every message:
\* isRetryableError is false for it, and executeWithRetry makes exactly one
\* attempt when the operation fails with one.
C25_ParseIsNeverRetried ==
    ( /\ Len(rRaised) > 0
      /\ instanceofClientError(rRaised[1])
      /\ rRaised[1].type = "Parse" ) =>
        /\ ~isRetryableError(rRaised[1])
        /\ rCalls = 1
        /\ rSleeps = <<>>

(***************************************************************************)
(* Properties of the provider clients and of the fan-out.                  *)
(***************************************************************************)
Slots == DOMAIN fClients
CallOf(i) == fTasks[i].call
OutcomeOf(i) == fTasks[i].promise.value

\* C6: a provider client's call whose request is answered with status 401
\* issues exactly one request and rejects with an Authentication-kind error,
\* whatever its retries count, also as a slot of executeParallel: once the
\* only request made so far has been answered with 401, the call is rejected
\* with that error and neither waits nor asks again.
C6_Status401IsNotRetried ==
    \A i \in Slots :
        ( /\ fClients[i].kind = "provider"
          /\ fTasks[i].requests = 1
          /\ fTasks[i].lastError = handleError(Failure_401) ) =>
            /\ fTasks[i].pc = "done"
            /\ CallOf(i).state = "rejected"
            /\ CallOf(i).value.type = "Authentication"

\* C7: executeParallel over N clients resolves with exactly N outcomes, and
\* outcome i carries the name and the result of client i, whatever the order
\* in which the calls complete (N = 0 gives the empty list).
C7_OneOutcomePerClientInOrder ==
    fPc = "resolved" =>
        /\ Len(fResult.value) = Len(fClients)
        /\ \A i \in Slots :
            /\ fResult.value[i].name = fClients[i].name
            /\ fResult.value[i] = OutcomeOf(i)
            /\ CallOf(i).state = "fulfilled" => fResult.value[i].result = Content(i)
            /\ CallOf(i).state = "rejected" => instanceofClientError(fResult.value[i].result)

C7_Witness ==
    /\ fPc = "resolved"
    /\ Len(fClients) = 2
    /\ fSettled = <<2, 1>>
    /\ fResult.value[1].name # fResult.value[2].name

\* C8: executeParallel never rejects because a client's call rejected: the
\* mapped function of a failing client fulfils with a ClientError as its
\* result, and the slot of every other client holds that client's own value.
C8_FailuresBecomeData ==
    /\ fPc # "rejected"
    /\ \A i \in Slots :
        fTasks[i].pc = "done" =>
            /\ fTasks[i].promise.state = "fulfilled"
            /\ CallOf(i).state = "rejected" => instanceofClientError(OutcomeOf(i).result)
            /\ CallOf(i).state = "fulfilled" => OutcomeOf(i).result = CallOf(i).value
            /\ fPc = "resolved" => fResult.value[i].result = OutcomeOf(i).result

C8_Witness ==
    /\ fPc = "resolved"
    /\ \E i \in Slots : CallOf(i).state = "rejected"
    /\ \E i \in Slots : CallOf(i).state = "fulfilled" /\ fResult.value[i].result = Content(i)

\* C9: executeParallel resolves only after the call of every client has
\* settled, fulfilled or rejected, with no short cut on the first failure or
\* the first success; and once the call of every client has settled,
\* executeParallel eventually resolves.
AllCallsSettled == \A i \in Slots : CallOf(i).state # "pending"

C9_JoinsEveryCall ==
    /\ [](fPc = "resolved" => AllCallsSettled)
    /\ ((fPc = "joining" /\ AllCallsSettled) ~> (fPc = "resolved"))

C9_Witness ==
    /\ fPc = "resolved"
    /\ Len(fSettled) = 2
    /\ CallOf(fSettled[1]).state = "rejected"
    /\ CallOf(fSettled[2]).state = "fulfilled"

\* C10, as it is stated: in executeParallel and executeParallelConversation
\* the value that replaces a thrown value that is no ClientError is a
\* Network-kind ClientError whose message is 'Unknown error'.
C10_CoercedMessageIsUnknownError ==
    \A i \in Slots :
        ( /\ fTasks[i].pc = "done"
          /\ CallOf(i).state = "rejected"
          /\ ~instanceofClientError(CallOf(i).value) ) =>
            /\ OutcomeOf(i).result.type = "Network"
            /\ OutcomeOf(i).result.message = "Unknown error"

\* C10: in executeParallel and executeParallelConversation a rejection that is
\* a ClientError is placed in the outcome unchanged (same kind, same message),
\* and any other thrown value is replaced by the Network-kind ClientError made
\* by ClientError.network('Unknown error'), whose message reads
\* 'Network error: Unknown error'.
C10_OutcomeOfARejection ==
    \A i \in Slots :
        (fTasks[i].pc = "done" /\ CallOf(i).state = "rejected") =>
            LET thrown == CallOf(i).value
                result == OutcomeOf(i).result
            IN  IF thrown.class = "ClientError"
                THEN /\ result = thrown
                     /\ result.type = thrown.type
                     /\ result.message = thrown.message
                ELSE /\ result.class = "ClientError"
                     /\ result.type = "Network"
                     /\ result.message = "Network error: Unknown error"

C10_Witness ==
    /\ fFunction = "executeParallelConversation"
    /\ fPc = "resolved"
    /\ \E i \in Slots : CallOf(i) = Rejected(PlainError("boom"))
    /\ \E i \in Slots : CallOf(i) = Rejected(handleError(Failure_500))

(***************************************************************************)
(* Properties of calculateDelay, read off the delays executeWithRetry      *)
(* sleeps: rSleeps[k + 1] is the delay before retry k.                     *)
(***************************************************************************)
rStrategy == fullConfig(rConfig).strategy
rBaseDelayMs == fullConfig(rConfig).baseDelayMs
rMaxDelayMs == fullConfig(rConfig).maxDelayMs

\* f(k): baseDelay, baseDelay * (k + 1), baseDelay * 2^k
UncappedDelay(strategy, k, baseDelay) ==
    CASE strategy = "fixed" -> baseDelay
      [] strategy = "linear" -> baseDelay * (k + 1)
      [] OTHER -> baseDelay * Pow2(k)

\* C11: for the strategies Fixed, Linear and ExponentialBackoff, every
\* baseDelay >= 0, attempt index k >= 0 and optional maxDelay >= 0, the delay
\* before retry k is min(f(k), maxDelay) when a maxDelay is given and f(k)
\* otherwise (floored; the delays of the model are whole numbers).
C11_DelayIsFormulaCappedAtMaxDelay ==
    rStrategy \in {"fixed", "linear", "exponential"} =>
        \A k \in 0..(Len(rSleeps) - 1) :
            LET f == UncappedDelay(rStrategy, k, rBaseDelayMs)
            IN  rSleeps[k + 1] = IF rMaxDelayMs # <<>> THEN Min(f, rMaxDelayMs[1]) ELSE f

\* C12: for the strategy ExponentialWithJitter, with b = baseDelay * 2^k, the
\* delay before retry k lies in [b, 1.1 * b] when no maxDelay is given and in
\* [min(b, maxDelay), min(1.1 * b, maxDelay)] when a maxDelay is given.
C12_JitterDelayIsWithinTenPercent ==
    rStrategy = "exponential_with_jitter" =>
        \A k \in 0..(Len(rSleeps) - 1) :
            LET b == rBaseDelayMs * Pow2(k)
                d == rSleeps[k + 1]
            IN  IF rMaxDelayMs # <<>>
                THEN /\ Min(b, rMaxDelayMs[1]) <= d
                     /\ 10 * d <= Min(11 * b, 10 * rMaxDelayMs[1])
                ELSE /\ b <= d
                     /\ 10 * d <= 11 * b

(***************************************************************************)
(* Properties of ClientMetrics.  snapshot holds the value of getSnapshot   *)
(* only in the state getSnapshot leaves, so the fields it was computed     *)
(* from are the fields of that state.                                      *)
(***************************************************************************)
Percentiles == {50, 95, 99}
SnapshotPercentile(p) ==
    CASE p = 50 -> snapshot.p50LatencyMs
      [] p = 95 -> snapshot.p95LatencyMs
      [] OTHER -> snapshot.p99LatencyMs

\* how many of the recorded latencies are below v, and how many are at most v
CountBelow(v) == Cardinality({i \in 1..Len(latencies) : latencies[i] < v})
CountAtMost(v) == Cardinality({i \in 1..Len(latencies) : latencies[i] <= v})

\* r = ceil(p * n / 100)
IsNearestRank(r, p, n) == 100 * r >= p * n /\ 100 * (r - 1) < p * n

\* the latencies recorded are xs in some order
RecordedInSomeOrder(xs) ==
    /\ Len(latencies) = Len(xs)
    /\ \A i \in 1..Len(xs) : CountAtMost(xs[i]) - CountBelow(xs[i]) = 1

\* C18: for every non-empty collection of n recorded latencies and p in
\* {50, 95, 99}, the percentile of getSnapshot is the element of rank
\* ceil(p * n / 100) of the latencies in ascending order (index rank - 1 of
\* the sorted array), whatever the order of recording; for 10, 20, 30, 40,
\* 100 in any order p50 = 30 and p95 = 100.
C18_PercentileIsNearestRank ==
    (snapshot.taken /\ Len(latencies) > 0) =>
        /\ \A p \in Percentiles :
            LET v == SnapshotPercentile(p)
                n == Len(latencies)
            IN  /\ \E i \in 1..n : latencies[i] = v
                /\ \E r \in 1..n : /\ IsNearestRank(r, p, n)
                                   /\ CountBelow(v) < r
                                   /\ r <= CountAtMost(v)
        /\ RecordedInSomeOrder(<<10, 20, 30, 40, 100>>) =>
                snapshot.p50LatencyMs = 30 /\ snapshot.p95LatencyMs = 100

C18_Witness ==
    /\ snapshot.taken
    /\ latencies = <<100, 40, 10, 30, 20>>
    /\ snapshot.p50LatencyMs = 30
    /\ snapshot.p95LatencyMs = 100

\* C19: getSnapshot never divides by zero: with no request recorded (fresh or
\* just reset) successRate, averageLatencyMs and the three percentiles are 0;
\* with no cache event cacheHitRate is 0; with no latency recorded, successes
\* or not, averageLatencyMs and the percentiles are 0; with no time elapsed
\* requestsPerSecond is 0.
SnapshotQuotients ==
    {snapshot.successRate, snapshot.averageLatencyMs, snapshot.cacheHitRate,
     snapshot.requestsPerSecond}

C19_NoDivisionByZero ==
    snapshot.taken =>
        /\ \A q \in SnapshotQuotients : q.den # 0
        /\ requestsTotal = 0 => snapshot.successRate.num = 0
        /\ Len(latencies) = 0 =>
                /\ snapshot.averageLatencyMs.num = 0
                /\ \A p \in Percentiles : SnapshotPercentile(p) = 0
        /\ cacheHits + cacheMisses = 0 => snapshot.cacheHitRate.num = 0
        /\ now - startTime = 0 => snapshot.requestsPerSecond.num = 0

C19_Witness ==
    /\ snapshot.taken
    /\ requestsSucceeded > 0
    /\ Len(latencies) = 0
    /\ cacheHits + cacheMisses = 0
    /\ now = startTime

\* C20: getSnapshot leaves every counter of ClientMetrics, the start time and
\* the latency list, its elements and their order, unchanged.
C20_GetSnapshotChangesNoField ==
    [][getSnapshot => UNCHANGED metricsFields]_vars

C20_Witness ==
    /\ snapshot.taken
    /\ Len(latencies) >= 2
    /\ latencies # sort(latencies)
    /\ snapshot.requestsFailed > 0

(***************************************************************************)
(* Properties of the streaming calls.                                      *)
(***************************************************************************)
NothingRead == [read |-> <<>>, out |-> <<>>, returned |-> FALSE]

\* the lines of a text that end with a newline
CompleteLines(text) == LET lines == split(text) IN SubSeq(lines, 1, Len(lines) - 1)

\* the call has ended without raising an error
EndedQuietly == dPc \in {"ended", "returned"}

\* the chunks of the feed when the transport delivers it as one chunk
WholeFeedChunks == ReadLines(dClient, CompleteLines(toString(dFeed)), NothingRead).out

\* C13: for a fixed feed, the sequence of StreamChunks a streaming call
\* produces is the same for every way of splitting the feed into transport
\* chunks: it is the sequence produced when the feed comes as one chunk.
C13_SameChunksForEverySplit ==
    EndedQuietly => dOut = WholeFeedChunks

\* a 'data: ' line whose payload is neither the sentinel nor valid JSON
IsMalformed(line) ==
    /\ startsWith(line, "data: ")
    /\ trim(slice(line, 6)) # "[DONE]"
    /\ ~JSON_parse(trim(slice(line, 6))).valid

WellFormedLinesRead == SelectSeq(dLines, LAMBDA line : ~IsMalformed(line))

\* C14: a 'data: ' line whose payload is not valid JSON produces no chunk and
\* does not end the stream: the chunks produced are those of the lines read
\* with the malformed ones left out, and the call goes on reading after one.
C14_MalformedLineIsSkipped ==
    LET st == ReadLines(dClient, WellFormedLinesRead, NothingRead)
    IN  /\ dOut = st.out
        /\ (dPc = "returned") = st.returned
        /\ (dLines # <<>> /\ IsMalformed(dLines[Len(dLines)])) => dPc \in {"reading", "ended", "threw"}

C14_Witness ==
    /\ dPc = "ended"
    /\ Len(dLines) = 3
    /\ ~IsMalformed(dLines[1])
    /\ IsMalformed(dLines[2])
    /\ ~IsMalformed(dLines[3])
    /\ Len(dOut) = 2

\* the line is the sentinel line or, for Claude, a message_stop event
IsTerminal(client, line) == DecodeLine(client, line).kind = "final"

NumComplete == Cardinality({k \in 1..Len(dOut) : dOut[k].isComplete})

\* C15: on the first 'data: [DONE]' line (for Claude also the first
\* message_stop event) the decoder emits exactly one chunk with empty content
\* and isComplete = true and terminates: that line is the last line taken up
\* and its chunk the last chunk, whatever follows it in the feed.
C15_TerminalLineEndsTheStream ==
    \A k \in 1..Len(dLines) :
        IsTerminal(dClient, dLines[k]) =>
            /\ k = Len(dLines)
            /\ dPc = "returned"
            /\ dOut # <<>>
            /\ dOut[Len(dOut)] = [content |-> "", isComplete |-> TRUE]
            /\ NumComplete = 1

C15_Witness ==
    /\ dPc = "returned"
    /\ dClient = "Claude"
    /\ dLines = <<EndLine("Claude")>>
    /\ dRest # ""
    /\ Len(CompleteLines(buffer \o "\n")) + Len(CompleteLines(toString(dRest))) >= 2

\* C16: every chunk sequence of a streaming call that ends without raising
\* an error ends with a chunk whose isComplete is true, the only such chunk
\* of the sequence, for every feed.
C16_EndsWithTheOnlyCompleteChunk ==
    EndedQuietly =>
        /\ dOut # <<>>
        /\ dOut[Len(dOut)].isComplete
        /\ NumComplete = 1

\* C17: when the transport fails while a stream is opened or consumed, the
\* call raises a ClientError of kind Stream, and no chunk is emitted from the
\* partial line in the buffer.
C17_TransportFailureIsAStreamError ==
    dPc = "threw" =>
        /\ instanceofClientError(dError)
        /\ dError.type = "Stream"
        /\ dOut = ReadLines(dClient, dLines, NothingRead).out

(***************************************************************************)
(* Properties of ClientMetrics over successive snapshots.                  *)
(***************************************************************************)
\* C21: two getSnapshot calls with no record, cache or reset operation
\* between them return identical values in every field of the snapshot,
\* whatever time passes between the two calls.
C21_RepeatedSnapshotsAreIdentical ==
    [][(getSnapshot /\ returned.taken) => snapshot' = returned]_vars

\* C22: whatever the order in which the tasks' calls of recordSuccess and
\* recordFailure on one ClientMetrics run, no update is lost: requestsSucceeded
\* and requestsFailed equal the number of calls of each kind, requestsTotal
\* equals their sum, and the latency list holds one entry per latency passed.
C22_NoRecordedUpdateIsLost ==
    /\ requestsSucceeded = called.succeeded
    /\ requestsFailed = called.failed
    /\ requestsTotal = called.succeeded + called.failed
    /\ Len(latencies) = Len(called.latencies)
    /\ sort(latencies) = sort(called.latencies)

C22_Witness ==
    /\ called.succeeded >= 2
    /\ called.failed >= 2
    /\ called.succeeded > Len(called.latencies)
    /\ \E k \in 1..Len(called.latencies) : called.latencies[k] = 0
    /\ \E k \in 1..Len(called.latencies) : called.latencies[k] > 0

(***************************************************************************)
(* Properties of the classifier.                                           *)
(***************************************************************************)
IsTimeoutCode(e) == isAxiosError(e) /\ e.code \in {"ECONNABORTED", "ETIMEDOUT"}
IsConnectionCode(e) == isAxiosError(e) /\ e.code \in {"ECONNREFUSED", "ENOTFOUND"}
HasStatus(e, status) == isAxiosError(e) /\ e.response = <<status>>

\* C23: handleError returns a ClientError for every value, by the first rule
\* that matches: a timeout code, a connection code, status 401, status 429,
\* any other status, a transport error without response, any other Error,
\* anything else; a connection-level code wins over a status of the same
\* failure.
C23_ClassifiesByFirstMatchingRule ==
    hPc \in {"classified", "decided"} =>
        /\ instanceofClientError(hResult)
        /\ hResult.type \in ErrorKinds
        /\ IF IsTimeoutCode(hError) THEN hResult = ClientError_network("Request timeout")
           ELSE IF IsConnectionCode(hError) THEN hResult = ClientError_network("Connection failed")
           ELSE IF HasStatus(hError, 401) THEN hResult = ClientError_authentication("Invalid API key")
           ELSE IF HasStatus(hError, 429) THEN hResult = ClientError_api("Rate limit exceeded")
           ELSE IF isAxiosError(hError) /\ hError.response # <<>> THEN
                /\ hResult.type = "Api"
                /\ startsWith(hResult.message,
                              "Api error: HTTP " \o ToString(hError.response[1]) \o ": ")
           ELSE IF isAxiosError(hError) THEN hResult.type = "Network"
           ELSE IF instanceofError(hError) THEN hResult.type = "Parse"
           ELSE hResult = ClientError_network("Unknown error occurred")

C23_Witness ==
    /\ hPc = "classified"
    /\ IsConnectionCode(hError)
    /\ HasStatus(hError, 401)
    /\ hResult.type = "Network"

IsProvider(i) == fClients[i].kind = "provider"

C27_DelaysFollowRetryStrategy ==
    \A i \in Slots :
        IsProvider(i) =>
            \A k \in 1..Len(fTasks[i].delays) :
                fTasks[i].delays[k] \in
                    calculateDelay(fClients[i].retryStrategy, k - 1,
                                   DefaultBaseDelayMs, <<DefaultMaxDelayMs>>)

(***************************************************************************)
(* Properties of a ChatSession whose call succeeds.                        *)
(***************************************************************************)
IsSend(c) == sCalls[c].kind \in {"send", "sendWithMetadata"}
Occurrences(msgs, message) == Cardinality({k \in 1..Len(msgs) : msgs[k] = message})
IsPrefix(xs, ys) == Len(xs) <= Len(ys) /\ SubSeq(ys, 1, Len(xs)) = xs
OnlyCall(c) == \A d \in CallIds \ {c} : sCalls[d].pc = "idle"

\* C28: a send or sendWithMetadata that succeeds has appended exactly two
\* messages to the history, the user message and after it an assistant
\* message holding the returned reply; the client was called with the
\* history that holds all earlier messages and then the new user message,
\* and the earlier messages are left unchanged.  (With no other call on the
\* session the history is the earlier one and these two messages.)
C28_SuccessfulSendAppendsTwo ==
    \A c \in CallIds :
        (IsSend(c) /\ sCalls[c].pc = "returned") =>
            LET user == Message("user", sCalls[c].message)
                assistant == Message("assistant", sCalls[c].result.value)
            IN  /\ sCalls[c].seen = Append(sCalls[c].before, user)
                /\ IsPrefix(sCalls[c].seen, messages)
                /\ Occurrences(messages, user) = 1
                /\ Occurrences(messages, assistant) = 1
                /\ OnlyCall(c) => messages = sCalls[c].before \o <<user, assistant>>

C28_Witness ==
    /\ IsSend(1) /\ sCalls[1].pc = "returned"
    /\ IsSend(2) /\ sCalls[2].pc = "returned"
    /\ messages = <<Message("system", "be brief"),
                    Message("user", UserText(1)), Message("assistant", Reply(1)),
                    Message("user", UserText(2)), Message("assistant", Reply(2))>>
    /\ sCalls[2].before = SubSeq(messages, 1, 3)

(***************************************************************************)
(* Properties of createClient.                                             *)
(***************************************************************************)
ClassOfProvider(name) ==
    IF name \in {"openai", "gpt", "chatgpt"} THEN "ChatGpt"
    ELSE IF name \in {"google", "gemini"} THEN "Gemini"
    ELSE IF name \in {"anthropic", "claude"} THEN "Claude"
    ELSE "none"

ThrewConfiguration(text) ==
    /\ cOutcome.how = "throw"
    /\ cOutcome.value = ClientError_configuration(text)

\* C29: createClient maps the provider name, whatever its case, to a ChatGPT
\* client (openai, gpt, chatgpt), a Gemini client (google, gemini) or a
\* Claude client (anthropic, claude) that reports the given model; an empty
\* provider, API key or model, looked at in that order, or any other
\* provider name throws a Configuration-kind ClientError, and no client is
\* made.
C29_ProviderNameSelectsTheClient ==
    cPc = "done" =>
        LET class == ClassOfProvider(toLowerCase(cProvider))
        IN  IF cProvider = "" THEN ThrewConfiguration("Provider must be a non-empty string.")
            ELSE IF cApiKey = "" THEN ThrewConfiguration("API key must be a non-empty string.")
            ELSE IF cModel = "" THEN ThrewConfiguration("Model must be a non-empty string.")
            ELSE IF class = "none" THEN
                /\ cOutcome.how = "throw"
                /\ instanceofClientError(cOutcome.value)
                /\ cOutcome.value.type = "Configuration"
            ELSE /\ cOutcome.how = "return"
                 /\ cOutcome.value.class = class
                 /\ cOutcome.value.model = cModel

C29_Witness ==
    /\ cPc = "done"
    /\ cProvider = "Anthropic"
    /\ cOutcome = Return(Claude("test-key", "claude-3"))

(***************************************************************************)
(* Properties of what the calls of the provider clients reject with.       *)
(***************************************************************************)
HasOneKind(e) == instanceofClientError(e) /\ e.type \in ErrorKinds

\* C30: every rejection of a provider client's sendPrompt, sendConversation
\* or streaming call is a ClientError that carries one of the six kinds, and
\* every failure outcome of executeParallel is such a ClientError: no raw
\* transport error reaches the caller.
C30_EveryRejectionIsAClientError ==
    /\ \A i \in Slots :
            (IsProvider(i) /\ CallOf(i).state = "rejected") => HasOneKind(CallOf(i).value)
    /\ dPc = "threw" => HasOneKind(dError)
    /\ fPc = "resolved" =>
            \A i \in Slots :
                CallOf(i).state = "rejected" => HasOneKind(fResult.value[i].result)

(***************************************************************************)
(* More of executeWithRetry: the invocations and the sleeps of a call.     *)
(***************************************************************************)
\* C31: executeWithRetry resolves with the value of the first successful
\* attempt and invokes the operation no more after it: when the promise is
\* fulfilled, every earlier invocation failed, the value is the one the last
\* invocation fulfilled with, and the invocation count stays as it is.  For
\* every pattern of outcomes and every maxAttempts >= 0 the operation is
\* invoked at least once and at most maxAttempts + 1 times.
C31_ResolvesWithFirstSuccess ==
    /\ rPc = "resolved" =>
          /\ rCalls = Len(rRaised) + 1
          /\ rResult = FnValue(rCalls)
          /\ ~ENABLED RetryNext
    /\ (rPc \notin {"idle", "start"} /\ rMaxAttempts >= 0) =>
          /\ 1 <= rCalls
          /\ rCalls <= rMaxAttempts + 1

C31_Witness ==
    /\ rPc = "resolved"
    /\ rMaxAttempts = 2
    /\ rCalls = 2

\* C32: executeWithRetry sleeps only between two attempts.  While an attempt
\* runs and when the call has ended, the sleeps are one fewer than the
\* invocations; during a sleep there are as many as invocations, and the next
\* invocation follows it.  The sleep after the failed attempt of index k is a
\* delay calculateDelay gives for index k, and a sleep begins only after a
\* retryable failure of an attempt that is not the last permitted one.
C32_SleepsOnlyBetweenAttempts ==
    /\ (rPc \in {"awaitFn", "resolved", "rejected"} /\ rCalls >= 1) =>
            Len(rSleeps) = rCalls - 1
    /\ rPc = "sleeping" =>
            /\ Len(rSleeps) = rCalls
            /\ Len(rRaised) = rCalls
            /\ rCalls <= rMaxAttempts
            /\ isRetryableError(rLastRaised)
    /\ \A k \in 1..Len(rSleeps) :
            rSleeps[k] \in calculateDelay(rStrategy, k - 1, rBaseDelayMs, rMaxDelayMs)

\* the call gave up on a failure that is not retryable, after a sleep, and a
\* call gave up on its last permitted attempt
C32_Witness ==
    /\ rPc = "rejected"
    /\ Len(rSleeps) = 1
    /\ rCalls = 2
    /\ \/ ~isRetryableError(rLastRaised) /\ rMaxAttempts = 2
       \/ isRetryableError(rLastRaised) /\ rMaxAttempts = 1

(***************************************************************************)
(* More of the fan-out: the calls run concurrently.                        *)
(***************************************************************************)
InDelay(i) == fTasks[i].pc = "delay"

\* C33: executeParallel starts every client's call, in input order, before
\* any of the calls completes: once executeParallel has run to its await
\* every call is started, in the order of the array, and no call is observed
\* as complete before that.  A client that waits in a retry delay does not
\* prevent another client's call from completing and having its outcome
\* recorded: the other call can be answered while the delay lasts, and the
\* outcome of a call that is complete is recorded whatever the others do.
C33_CallsRunConcurrently ==
    /\ fPc \in {"joining", "resolved", "rejected"} =>
            /\ fStarted = [i \in DOMAIN fClients |-> i]
            /\ \A i \in Slots : fTasks[i].pc # "notStarted"
    /\ fPc = "start" => \A i \in Slots : fTasks[i].pc = "notStarted"
    /\ \A i \in Slots, j \in Slots :
            (fPc = "joining" /\ InDelay(i)) =>
                /\ fTasks[j].pc = "request" => ENABLED HttpResponds(j)
                /\ fTasks[j].pc = "pending" => ENABLED OtherFulfils(j)
                /\ fTasks[j].pc = "done" =>
                        /\ CallOf(j).state # "pending"
                        /\ fTasks[j].promise = TaskOutcome(fClients[j].name, CallOf(j))

\* the second client's call completed, and its outcome is recorded, while the
\* first client waits in the delay that it began before
C33_Witness ==
    /\ Len(fClients) = 2
    /\ InDelay(1)
    /\ fTasks[2].pc = "done"
    /\ fSettled = <<2>>
    /\ OutcomeOf(2) = [name |-> fClients[2].name, result |-> Content(2)]

\* C34: when the provider answers successfully but the response holds no
\* content, sendPrompt rejects with the error raised at the detection point:
\* an Api-kind ClientError whose message is
\* 'Api error: No response from <provider>'.
C34_NoResponseIsAnApiError ==
    \A i \in Slots :
        ( /\ IsProvider(i)
          /\ CallOf(i).state = "rejected"
          /\ fTasks[i].caught = NoResponse(fClients[i].name) ) =>
            /\ CallOf(i).value.type = "Api"
            /\ CallOf(i).value.message = "Api error: No response from " \o fClients[i].name

(***************************************************************************)
(* More of the chat session: streams, overlapping calls, getMessages.      *)
(***************************************************************************)
\* the contents of the chunks, concatenated in order
RECURSIVE ContentOf(_)
ContentOf(chunks) ==
    IF chunks = <<>> THEN "" ELSE chunks[1].content \o ContentOf(SubSeq(chunks, 2, Len(chunks)))

\* C35: after the generator returned by stream has been consumed to its end
\* without an error, the history is the history before the call, the user
\* message, and exactly one assistant message whose content is the
\* concatenation of the contents of all chunks yielded, for every sequence of
\* chunks of the client, one with no chunk marked isComplete included.
\* Stated for a stream that no other call overlaps or follows.
C35_StreamAppendsTheWholeReply ==
    \A c \in CallIds :
        (sCalls[c].kind = "stream" /\ sCalls[c].pc = "done" /\ OnlyCall(c)) =>
            messages = sCalls[c].before \o
                         << Message("user", sCalls[c].message),
                            Message("assistant", ContentOf(sCalls[c].yielded)) >>

\* the user message of call c, and the positions it has in the history
UserMessage(c) == Message("user", sCalls[c].message)
PositionsIn(msgs, message) == {k \in 1..Len(msgs) : msgs[k] = message}

\* calls c and d are both between their start and their end
Overlap(c, d) ==
    /\ c # d
    /\ IsSend(c) /\ sCalls[c].pc = "awaiting"
    /\ IsSend(d) /\ sCalls[d].pc = "awaiting"

\* C36: when two send calls on one session overlap in time, each assistant
\* reply is appended directly after the user message it answers, and a
\* failure of one call removes that call's own user message and no other
\* message.  Stated for the step in which one of two overlapping calls ends.
C36_OverlappingSendsKeepPairs ==
    [][ \A c \in CallIds, d \in CallIds :
            Overlap(c, d) =>
                /\ sCalls'[c].pc = "returned" =>
                        \E k \in PositionsIn(messages', UserMessage(c)) :
                            /\ k < Len(messages')
                            /\ messages'[k + 1] =
                                    Message("assistant", sCalls'[c].result.value)
                /\ sCalls'[c].pc = "threw" =>
                        messages' = SelectSeq(messages, LAMBDA m : m # UserMessage(c)) ]_vars

RECURSIVE SumOf(_)
SumOf(xs) == IF xs = <<>> THEN 0 ELSE xs[1] + SumOf(SubSeq(xs, 2, Len(xs)))

requestCounters == <<requestsTotal, requestsSucceeded, requestsFailed>>

\* C38: in every state reachable by recordSuccess, recordFailure,
\* recordCacheHit, recordCacheMiss, getSnapshot and reset, requestsTotal =
\* requestsSucceeded + requestsFailed, the latency list has at most
\* requestsSucceeded entries and totalLatencyMs is the sum of its entries; and
\* recordCacheHit and recordCacheMiss leave the request counters unchanged.
C38_CountersAreConsistent ==
    /\ [](/\ requestsTotal = requestsSucceeded + requestsFailed
          /\ Len(latencies) <= requestsSucceeded
          /\ totalLatencyMs = SumOf(latencies))
    /\ [][(cacheHits' = cacheHits + 1 \/ cacheMisses' = cacheMisses + 1) =>
                UNCHANGED requestCounters]_vars

\* successes with and without a latency, a failure and a cache hit after them
C38_Witness ==
    /\ requestsSucceeded = 2
    /\ requestsFailed = 1
    /\ Len(latencies) = 1
    /\ totalLatencyMs = 40
    /\ cacheHits = 1

\* the counters and the latency list of a ClientMetrics object
counters ==
    <<requestsTotal, requestsSucceeded, requestsFailed, totalLatencyMs, latencies,
      promptTokensTotal, completionTokensTotal, cacheHits, cacheMisses>>

\* what they are in a newly constructed object (metrics.ts:6-14)
AsConstructed == <<0, 0, 0, 0, <<>>, 0, 0, 0, 0>>

\* C39: after reset() every counter is 0 and the latency list is empty, as in
\* a newly constructed object, whatever operations preceded it; a reset that
\* follows a reset leaves the counters as the first one made them; and the
\* records made after a reset are counted from zero.
C39_ResetGivesANewAggregator ==
    /\ [][reset => /\ counters' = AsConstructed
                   /\ startTime' = now
                   /\ (counters = AsConstructed => counters' = counters)]_vars
    /\ [](/\ requestsSucceeded = called.succeeded
          /\ requestsFailed = called.failed
          /\ requestsTotal = called.succeeded + called.failed)

\* a reset was made after time had passed, and one success was recorded after it
C39_Witness ==
    /\ startTime = 1
    /\ counters = <<1, 1, 0, 10, <<10>>, 7, 11, 0, 0>>

Recorded == {latencies[i] : i \in 1..Len(latencies)}

\* C40: whenever at least one latency has been recorded, each of
\* p50LatencyMs, p95LatencyMs and p99LatencyMs of a snapshot is one of the
\* recorded latencies, and minimum <= p50 <= p95 <= p99 <= maximum of the
\* recorded latencies.
C40_PercentilesAreRecordedAndOrdered ==
    (snapshot.taken /\ latencies # <<>>) =>
        /\ \A p \in Percentiles : SnapshotPercentile(p) \in Recorded
        /\ SnapshotPercentile(50) <= SnapshotPercentile(95)
        /\ SnapshotPercentile(95) <= SnapshotPercentile(99)
        /\ \E lo \in Recorded, hi \in Recorded :
                /\ \A v \in Recorded : lo <= v /\ v <= hi
                /\ lo <= SnapshotPercentile(50)
                /\ SnapshotPercentile(99) <= hi

\* latencies recorded out of order, with a median below the other two
C40_Witness ==
    /\ snapshot.taken
    /\ Len(latencies) = 3
    /\ latencies[1] > latencies[2]
    /\ snapshot.p50LatencyMs < snapshot.p95LatencyMs
    /\ snapshot.p95LatencyMs = snapshot.p99LatencyMs

====
